---------------------------- MODULE Spec2Model ----------------------------
(***************************************************************************)
(* Model of the LCA scenario mapping tool (reduzer-summary).               *)
(*                                                                         *)
(*   utils/detector.py      the pattern detectors (pure functions)         *)
(*   utils/data_parser.py   ingest, user mapping, aggregation, comparison  *)
(*   main.py                the Streamlit session: upload, edit loop,      *)
(*                          analysis, start over                           *)
(*                                                                         *)
(* Python strings are TLA+ strings; a Python value that may or may not be  *)
(* a string (a spreadsheet cell, a detector argument) is a tagged record   *)
(* built by Str, Num or NaN.  Python's None (and pandas' missing value in  *)
(* an object column) is the string None.                                   *)
(***************************************************************************)
EXTENDS Integers, Sequences, FiniteSets, TLC

VARIABLES
    df,             \* st.session_state['df']: NoFrame or the sequence of rows
    pipeline_step,  \* st.session_state['pipeline_step']
    structure,      \* the tree last returned by aggregate_by_mapping
    comparison,     \* the result of the last compare_scenarios call
    error,          \* the columns named by the last failed load, or <<>>
    edits,          \* number of user edits made since the session started
    arg,            \* argument of a detector call
    ret             \* [fn, val]: the detector called last and what it returned

vars == <<df, pipeline_step, structure, comparison, error, edits, arg, ret>>

(***************************************************************************)
(* Python values                                                           *)
(***************************************************************************)
None == "None"

Str(s) == [t |-> "str", s |-> s, n |-> 0]
Num(n) == [t |-> "num", s |-> "", n |-> n]
NaN == [t |-> "nan", s |-> "", n |-> 0]
\* the value None handed in as an argument or a cell
Missing == [t |-> "none", s |-> "", n |-> 0]

\* isinstance(v, str)
IsStr(v) == v.t = "str"

(***************************************************************************)
(* Strings and the regular-expression fragments the detectors use          *)
(***************************************************************************)
Char(s, i) == IF 1 <= i /\ i <= Len(s) THEN SubSeq(s, i, i) ELSE ""

\* s[i : i+n], empty when it runs over the end
Slice(s, i, n) == IF 1 <= i /\ i + n - 1 <= Len(s) THEN SubSeq(s, i, i + n - 1) ELSE ""

LowerTable ==
    ("A" :> "a") @@ ("B" :> "b") @@ ("C" :> "c") @@ ("D" :> "d") @@ ("E" :> "e") @@
    ("F" :> "f") @@ ("G" :> "g") @@ ("H" :> "h") @@ ("I" :> "i") @@ ("J" :> "j") @@
    ("K" :> "k") @@ ("L" :> "l") @@ ("M" :> "m") @@ ("N" :> "n") @@ ("O" :> "o") @@
    ("P" :> "p") @@ ("Q" :> "q") @@ ("R" :> "r") @@ ("S" :> "s") @@ ("T" :> "t") @@
    ("U" :> "u") @@ ("V" :> "v") @@ ("W" :> "w") @@ ("X" :> "x") @@ ("Y" :> "y") @@
    ("Z" :> "z")

UpperTable ==
    ("a" :> "A") @@ ("b" :> "B") @@ ("c" :> "C") @@ ("d" :> "D") @@ ("e" :> "E") @@
    ("f" :> "F") @@ ("g" :> "G") @@ ("h" :> "H") @@ ("i" :> "I") @@ ("j" :> "J") @@
    ("k" :> "K") @@ ("l" :> "L") @@ ("m" :> "M") @@ ("n" :> "N") @@ ("o" :> "O") @@
    ("p" :> "P") @@ ("q" :> "Q") @@ ("r" :> "R") @@ ("s" :> "S") @@ ("t" :> "T") @@
    ("u" :> "U") @@ ("v" :> "V") @@ ("w" :> "W") @@ ("x" :> "X") @@ ("y" :> "Y") @@
    ("z" :> "Z")

LowerChar(c) == IF c \in DOMAIN LowerTable THEN LowerTable[c] ELSE c
UpperChar(c) == IF c \in DOMAIN UpperTable THEN UpperTable[c] ELSE c

RECURSIVE lower(_)
\* str.lower()
lower(s) == IF s = "" THEN "" ELSE LowerChar(Head(s)) \o lower(Tail(s))

RECURSIVE upper(_)
\* str.upper()
upper(s) == IF s = "" THEN "" ELSE UpperChar(Head(s)) \o upper(Tail(s))

\* \s
Whitespace == {" ", "\t", "\n", "\r", "\f"}
\* [\s_-]
Separator == Whitespace \cup {"_", "-"}
\* \d
Digit == {"0", "1", "2", "3", "4", "5", "6", "7", "8", "9"}

\* (?:^|[\s_-]) before position i
BoundLeft(s, i) == i = 1 \/ Char(s, i - 1) \in Separator
\* (?:[\s_-]|$) at position j, the position after the token
BoundRight(s, j) == j = Len(s) + 1 \/ Char(s, j) \in Separator

\* sub in s
Contains(s, sub) == \E i \in 1..(Len(s) - Len(sub) + 1) : Slice(s, i, Len(sub)) = sub

\* re.search(r'(?:^|[\s_-])tok(?:[\s_-]|$)', s)
BoundedToken(s, tok) ==
    \E i \in 1..(Len(s) - Len(tok) + 1) :
        /\ Slice(s, i, Len(tok)) = tok
        /\ BoundLeft(s, i)
        /\ BoundRight(s, i + Len(tok))

\* re.search(r'(?:^|[\s_-])(t1|t2|...)(?:[\s_-]|$)', s)
BoundedAny(s, toks) == \E tok \in toks : BoundedToken(s, tok)

RECURSIVE SkipWhile(_, _, _)
\* the first position >= i of s whose character is not in cls (a greedy cls*)
SkipWhile(s, i, cls) ==
    IF i <= Len(s) /\ Char(s, i) \in cls THEN SkipWhile(s, i + 1, cls) ELSE i

\* the leftmost position of 1..n satisfying Hit, 0 when there is none
Leftmost(Hit(_), n) ==
    LET hits == {i \in 1..n : Hit(i)}
    IN  IF hits = {} THEN 0 ELSE CHOOSE i \in hits : \A j \in hits : i <= j

(***************************************************************************)
(* utils/detector.py                                                       *)
(***************************************************************************)
MMI_MAPPING == ("300" :> "NY") @@ ("700" :> "EKS") @@ ("800" :> "GJEN") @@ ("900" :> "RIVES")

\* [ABCD] under re.IGNORECASE, on the lower-cased string
ScenarioLetter == {"a", "b", "c", "d"}

\* mutant: the separator is looked for between the word and the letter
ScenarioPattern1At_SeparatorFirst(ls, i) ==
    /\ Slice(ls, i, 8) = "scenario"
    /\ \/ Char(ls, i + 8) \in ScenarioLetter
       \/ Char(ls, i + 8) \in Separator /\ Char(ls, i + 9) \in ScenarioLetter

\* r'Scenario([ABCD])(?:[_\s-]|$)' matched at position i of the lower-cased string
ScenarioPattern1At(ls, i) ==
    /\ Slice(ls, i, 8) = "scenario"
    /\ Char(ls, i + 8) \in ScenarioLetter
    /\ BoundRight(ls, i + 9)

\* r'Scenario\s+([ABCD])' at position i; the letter stands after the blanks
ScenarioPattern2At(ls, i) ==
    /\ Slice(ls, i, 8) = "scenario"
    /\ LET k == SkipWhile(ls, i + 8, Whitespace)
       IN  k > i + 8 /\ Char(ls, k) \in ScenarioLetter

\* r'[ABCD]\s*-\s*Scenario\s+([ABCD])' at position i
ScenarioPattern3At(ls, i) ==
    /\ Char(ls, i) \in ScenarioLetter
    /\ LET k == SkipWhile(ls, i + 1, Whitespace)
       IN  /\ Char(ls, k) = "-"
           /\ ScenarioPattern2At(ls, SkipWhile(ls, k + 1, Whitespace))

\* r'^([ABCD])[\s_-]' with re.match and no re.IGNORECASE
ScenarioPattern4(s) ==
    /\ Char(s, 1) \in {"A", "B", "C", "D"}
    /\ Char(s, 2) \in Separator

\* the letter named by the leftmost match of the first 'Scenario' pattern
\* (patterns 1 to 3, in this order) that matches, None when none does
ScenarioByMarker(s) ==
    LET ls == lower(s)
        P1(i) == ScenarioPattern1At(ls, i)
        P2(i) == ScenarioPattern2At(ls, i)
        P3(i) == ScenarioPattern3At(ls, i)
        m1 == Leftmost(P1, Len(s))
        m2 == Leftmost(P2, Len(s))
        m3 == Leftmost(P3, Len(s))
    IN  IF m1 # 0 THEN upper(Char(s, m1 + 8))
        ELSE IF m2 # 0 THEN upper(Char(s, SkipWhile(ls, m2 + 8, Whitespace)))
        ELSE IF m3 # 0 THEN
            LET k == SkipWhile(ls, m3 + 1, Whitespace)
                m == SkipWhile(ls, k + 1, Whitespace)
            IN  upper(Char(s, SkipWhile(ls, m + 8, Whitespace)))
        ELSE None

\* mutant: the bare leading letter is tried before the 'Scenario' patterns
detect_scenario_LeadingFirst(category) ==
    IF ~IsStr(category) \/ category.s = "" THEN None
    ELSE IF ScenarioPattern4(category.s) THEN upper(Char(category.s, 1))
    ELSE ScenarioByMarker(category.s)

detect_scenario(category) ==
    IF ~IsStr(category) \/ category.s = "" THEN None
    ELSE IF ScenarioByMarker(category.s) # None THEN ScenarioByMarker(category.s)
    ELSE IF ScenarioPattern4(category.s) THEN upper(Char(category.s, 1))
    ELSE None

\* mutant: RIB is tested before RIBp
disciplines_RibFirst == <<"RIB", "RIBp", "RIV", "ARK", "RIE">>

\* Order matters: check RIBp before RIB
disciplines == <<"RIBp", "RIB", "RIV", "ARK", "RIE">>

\* mutant: the token is searched without its boundaries
DisciplinePattern_Unbounded(ls, discipline) == Contains(ls, lower(discipline))

\* the pattern built for one discipline, searched under re.IGNORECASE
DisciplinePattern(ls, discipline) == BoundedToken(ls, lower(discipline))

detect_discipline(category) ==
    IF ~IsStr(category) \/ category.s = "" THEN None
    ELSE
    LET ls == lower(category.s)
        Hit(k) == DisciplinePattern(ls, disciplines[k])
        first == Leftmost(Hit, Len(disciplines))
    IN  IF first = 0 THEN None ELSE disciplines[first]

\* [3789]00
MmiDigits == {"300", "700", "800", "900"}

\* r'MMI[\s_]?([3789]00)' at position i of the lower-cased string: 0 when it
\* does not match there, else the position of the code
MmiPattern1At(ls, i) ==
    IF Slice(ls, i, 3) # "mmi" THEN 0
    ELSE IF Char(ls, i + 3) \in (Whitespace \cup {"_"}) /\ Slice(ls, i + 4, 3) \in MmiDigits
         THEN i + 4
    ELSE IF Slice(ls, i + 3, 3) \in MmiDigits THEN i + 3
    ELSE 0

\* r'(?:^|[\s_-])([3789]00)(?:[\s_-]|$)' with the code at position i
MmiPattern2At(s, i) ==
    /\ Slice(s, i, 3) \in MmiDigits
    /\ BoundLeft(s, i)
    /\ BoundRight(s, i + 3)

\* mutant: the 'reused' tests are made last
MmiKeyword_ReusedLast(category_lower) ==
    IF Contains(category_lower, "existing waste") THEN "900"
    ELSE IF BoundedAny(category_lower, {"rives", "riving", "demolish", "demo"}) THEN "900"
    ELSE IF BoundedToken(category_lower, "existing") THEN "700"
    ELSE IF BoundedAny(category_lower, {"eksisterende", "beholdes", "eks", "kept"}) THEN "700"
    ELSE IF BoundedToken(category_lower, "new") THEN "300"
    ELSE IF BoundedAny(category_lower, {"nybygg", "ny"}) THEN "300"
    ELSE IF BoundedToken(category_lower, "reused") THEN "800"
    ELSE IF BoundedAny(category_lower, {"gjenbruk", "gjen"}) THEN "800"
    ELSE None

\* mutant: plain 'existing' is tested before 'existing waste'
MmiKeyword_ExistingFirst(category_lower) ==
    IF BoundedToken(category_lower, "existing") THEN "700"
    ELSE IF Contains(category_lower, "existing waste") THEN "900"
    ELSE IF BoundedAny(category_lower, {"rives", "riving", "demolish", "demo"}) THEN "900"
    ELSE IF BoundedToken(category_lower, "reused") THEN "800"
    ELSE IF BoundedAny(category_lower, {"gjenbruk", "gjen"}) THEN "800"
    ELSE IF BoundedAny(category_lower, {"eksisterende", "beholdes", "eks", "kept"}) THEN "700"
    ELSE IF BoundedToken(category_lower, "new") THEN "300"
    ELSE IF BoundedAny(category_lower, {"nybygg", "ny"}) THEN "300"
    ELSE None

\* the keyword tests of detect_mmi in the order the code makes them
MmiKeyword(category_lower) ==
    IF Contains(category_lower, "existing waste") THEN "900"
    ELSE IF BoundedAny(category_lower, {"rives", "riving", "demolish", "demo"}) THEN "900"
    ELSE IF BoundedToken(category_lower, "reused") THEN "800"
    ELSE IF BoundedAny(category_lower, {"gjenbruk", "gjen"}) THEN "800"
    ELSE IF BoundedToken(category_lower, "existing") THEN "700"
    ELSE IF BoundedAny(category_lower, {"eksisterende", "beholdes", "eks", "kept"}) THEN "700"
    ELSE IF BoundedToken(category_lower, "new") THEN "300"
    ELSE IF BoundedAny(category_lower, {"nybygg", "ny"}) THEN "300"
    ELSE None

\* mutant: the bare bounded code is looked for before the marked code
detect_mmi_BareFirst(category) ==
    IF ~IsStr(category) \/ category.s = "" THEN None
    ELSE
    LET s == category.s
        ls == lower(s)
        P1(i) == MmiPattern1At(ls, i) # 0
        P2(i) == MmiPattern2At(s, i)
        m1 == Leftmost(P1, Len(s))
        m2 == Leftmost(P2, Len(s))
    IN  IF m2 # 0 THEN Slice(s, m2, 3)
        ELSE IF m1 # 0 THEN Slice(s, MmiPattern1At(ls, m1), 3)
        ELSE MmiKeyword(ls)

detect_mmi(category) ==
    IF ~IsStr(category) \/ category.s = "" THEN None
    ELSE
    LET s == category.s
        ls == lower(s)
        P1(i) == MmiPattern1At(ls, i) # 0
        P2(i) == MmiPattern2At(s, i)
        m1 == Leftmost(P1, Len(s))
        m2 == Leftmost(P2, Len(s))
    IN  IF m1 # 0 THEN Slice(s, MmiPattern1At(ls, m1), 3)
        ELSE IF m2 # 0 THEN Slice(s, m2, 3)
        ELSE MmiKeyword(ls)

get_mmi_label(mmi_code) ==
    IF mmi_code \in DOMAIN MMI_MAPPING THEN MMI_MAPPING[mmi_code] ELSE "UKJENT"

\* mutant: the discipline is looked for only once a scenario was found
detect_all_Chained(category) ==
    LET scenario == detect_scenario(category)
        discipline == IF scenario = None THEN None ELSE detect_discipline(category)
        mmi_code == detect_mmi(category)
    IN  [scenario |-> scenario,
         discipline |-> discipline,
         mmi_code |-> mmi_code,
         mmi_label |-> get_mmi_label(mmi_code),
         original_category |-> category]

detect_all(category) ==
    LET scenario == detect_scenario(category)
        discipline == detect_discipline(category)
        mmi_code == detect_mmi(category)
    IN  [scenario |-> scenario,
         discipline |-> discipline,
         mmi_code |-> mmi_code,
         mmi_label |-> get_mmi_label(mmi_code),
         original_category |-> category]

\* r'RAMB.?LL' under re.IGNORECASE: '.' is any character but a newline
SummaryPatternRamboll(ls) ==
    \E i \in 1..Len(ls) :
        /\ Slice(ls, i, 4) = "ramb"
        /\ \/ Slice(ls, i + 4, 2) = "ll"
           \/ Char(ls, i + 4) \notin {"", "\n"} /\ Slice(ls, i + 5, 2) = "ll"

\* r'^S\d+\s*-' under re.IGNORECASE
SummaryPatternSNumber(ls) ==
    /\ Char(ls, 1) = "s"
    /\ LET d == SkipWhile(ls, 2, Digit)
       IN  d > 2 /\ Char(ls, SkipWhile(ls, d, Whitespace)) = "-"

\* the summary_patterns list, each searched under re.IGNORECASE
summary_patterns(ls) ==
    \/ SummaryPatternRamboll(ls)
    \/ SummaryPatternSNumber(ls)
    \/ Contains(ls, "total")
    \/ Contains(ls, "sum")
    \/ Contains(ls, "totalt")

is_summary_row(category) ==
    IF ~IsStr(category) \/ category.s = "" THEN FALSE
    ELSE summary_patterns(lower(category.s))

(***************************************************************************)
(* Spreadsheets: the uploaded workbooks the session can be given.  A       *)
(* workbook is its header row and its rows of cells.                       *)
(***************************************************************************)
StdColumns == <<"category", "Construction (A)", "Operation (B)", "End-of-life (C)">>

\* the four rows of the end-to-end scenario
FileEndToEnd ==
    [columns |-> StdColumns,
     rows |-> << <<Str("Scenario A - RIV - New"), Num(1000), Num(0), Num(0)>>,
                 <<Str("Scenario C - RIV - New"), Num(800), Num(0), Num(0)>>,
                 <<Str("Scenario C - RIV - Existing"), Num(100), Num(0), Num(0)>>,
                 <<Str("Scenario C - RIV - Reused"), Num(50), Num(0), Num(0)>> >>]

\* tests/conftest.py, sample_excel_data
FileSample ==
    [columns |-> StdColumns,
     rows |-> << <<Str("Scenario A - RIV - MMI300"), Num(1000), Num(500), Num(100)>>,
                 <<Str("Scenario C - ARK - MMI700"), Num(2000), Num(1000), Num(200)>>,
                 <<Str("Scenario A - RIE - MMI800"), Num(1500), Num(750), Num(150)>>,
                 <<Str("S8 - RAMBELL"), Num(4500), Num(2250), Num(450)>> >>]

\* a reloaded sheet: a weighting column, blank and missing categories, a
\* numeric category, unparsable and negative amounts, a 'copy' row
FileReload ==
    [columns |-> <<"Category name", "construction_a", "operation_b", "end_of_life_c", "weighting">>,
     rows |-> << <<Str("Scenario A - RIV - New"), Num(1000), Num(0), Num(0), Num(150)>>,
                 <<Str("   "), Num(5), Num(5), Num(5), Num(100)>>,
                 <<Str("Scenario C - RIV - Existing Waste"), Str("n/a"), Str("200"), Num(-300), Num(-20)>>,
                 <<NaN, Num(7), Num(7), Num(7), Num(100)>>,
                 <<Str("Scenario C - ARK - 700 copy"), Num(400), NaN, Num(0), Str("?")>>,
                 <<Num(2024), Num(10), Num(20), Num(30), Num(50)>>,
                 <<Str("Total Scenario A - RIE - 800"), Num(600), Num(0), Num(0), Num(100)>> >>]

\* a sheet without operation and end-of-life columns
FileMissing ==
    [columns |-> <<"category", "Construction (A)", "Drift">>,
     rows |-> << <<Str("Scenario A - RIV - New"), Num(1000), Num(0)>> >>]

\* a sheet whose first header is an amount column: nothing names the category
FileNoCategory ==
    [columns |-> <<"Construction (A)", "Operation (B)", "End-of-life (C)">>,
     rows |-> << <<Num(1000), Num(0), Num(0)>> >>]

\* a sheet of which ingest excludes every row: a summary row and an outdated one
FileAllExcluded ==
    [columns |-> StdColumns,
     rows |-> << <<Str("Totalt"), Num(3000), Num(0), Num(0)>>,
                 <<Str("Scenario A - ARK - MMI300 utdatert"), Num(500), Num(0), Num(0)>> >>]

\* a sheet whose only row is marked 'outdated' in English
FileOutdated ==
    [columns |-> StdColumns,
     rows |-> << <<Str("Scenario A - RIE - New outdated"), Num(250), Num(0), Num(0)>> >>]

Files ==
    {FileEndToEnd, FileSample, FileReload, FileMissing, FileNoCategory, FileAllExcluded,
     FileOutdated}

(***************************************************************************)
(* utils/data_parser.py: load_excel_file                                   *)
(***************************************************************************)
RECURSIVE lstrip(_)
lstrip(s) == IF s # "" /\ Head(s) \in Whitespace THEN lstrip(Tail(s)) ELSE s

RECURSIVE rstrip(_)
rstrip(s) ==
    IF s # "" /\ Char(s, Len(s)) \in Whitespace THEN rstrip(SubSeq(s, 1, Len(s) - 1)) ELSE s

\* str.strip()
strip(s) == rstrip(lstrip(s))

\* str.endswith(suffix)
endswith(s, suffix) ==
    Len(s) >= Len(suffix) /\ Slice(s, Len(s) - Len(suffix) + 1, Len(suffix)) = suffix

DigitChars == <<"0", "1", "2", "3", "4", "5", "6", "7", "8", "9">>

DigitValue(c) == (CHOOSE k \in 1..10 : DigitChars[k] = c) - 1

RECURSIVE ParseDigits(_, _)
ParseDigits(s, acc) ==
    IF s = "" THEN acc ELSE ParseDigits(Tail(s), 10 * acc + DigitValue(Head(s)))

\* the string is an integer literal: digits with an optional sign
IsIntLiteral(s) ==
    LET body == IF Char(s, 1) = "-" THEN Tail(s) ELSE s
    IN  body # "" /\ \A i \in 1..Len(body) : Char(body, i) \in Digit

RECURSIVE IntToStr(_)
\* str(n)
IntToStr(n) ==
    IF n < 0 THEN "-" \o IntToStr(0 - n)
    ELSE IF n < 10 THEN DigitChars[n + 1]
    ELSE IntToStr(n \div 10) \o DigitChars[(n % 10) + 1]

\* Series.astype(str) on one cell
astype_str(v) ==
    IF IsStr(v) THEN v.s ELSE IF v.t = "num" THEN IntToStr(v.n) ELSE "nan"

\* pd.to_numeric(cell, errors='coerce'): a number, or NaN
to_numeric(v) ==
    IF v.t = "num" THEN v
    ELSE IF IsStr(v) /\ IsIntLiteral(strip(v.s))
         THEN Num(IF Char(strip(v.s), 1) = "-"
                  THEN 0 - ParseDigits(Tail(strip(v.s)), 0)
                  ELSE ParseDigits(strip(v.s), 0))
    ELSE NaN

\* Series.fillna(value) on one cell, as a number
fillna(v, value) == IF v.t = "nan" THEN value ELSE v.n

\* Series.clip(lower, upper) on one cell
clip(x, lo, hi) == IF x < lo THEN lo ELSE IF x > hi THEN hi ELSE x

\* the percentage scale: weighting / 100.0.  total_gwp is held in hundredths
\* (total_gwp_base * weighting), so that the product is exact.
Percent == 100

\* total_gwp_base * (weighting / 100.0), in hundredths
weighted_gwp(total_gwp_base, weighting) == total_gwp_base * weighting

\* lines 35-45: the name a source column is renamed to
column_mapping(columns, k) ==
    LET col_str == strip(columns[k])
    IN  IF Contains(lower(col_str), "construction") \/ endswith(col_str, "(A)")
            THEN "construction_a"
        ELSE IF Contains(lower(col_str), "operation") \/ endswith(col_str, "(B)")
            THEN "operation_b"
        ELSE IF Contains(lower(col_str), "end") \/ endswith(col_str, "(C)")
            THEN "end_of_life_c"
        ELSE IF Contains(lower(col_str), "category") \/ columns[k] = columns[1]
            THEN "category"
        ELSE columns[k]

\* df.rename(columns=column_mapping)
renamed_columns(columns) == [k \in 1..Len(columns) |-> column_mapping(columns, k)]

required_cols == <<"category", "construction_a", "operation_b", "end_of_life_c">>

HasColumn(names, col) == \E k \in 1..Len(names) : names[k] = col

\* mutant: only the first lacking column is reported
missing_columns_FirstOnly(columns) ==
    LET names == renamed_columns(columns)
        Lacks(col) == ~HasColumn(names, col)
    IN  IF SelectSeq(required_cols, Lacks) = <<>> THEN <<>>
        ELSE <<Head(SelectSeq(required_cols, Lacks))>>

\* lines 50-51: the required columns the renamed sheet lacks
missing_columns(columns) ==
    LET names == renamed_columns(columns)
        Lacks(col) == ~HasColumn(names, col)
    IN  SelectSeq(required_cols, Lacks)

ColumnIndex(names, col) ==
    CHOOSE k \in 1..Len(names) : names[k] = col /\ \A j \in 1..(k - 1) : names[j] # col

\* lines 55-57: the category is neither missing nor blank
KeepRow(category) == category.t \notin {"nan", "none"} /\ strip(astype_str(category)) # ""

\* lines 77-81: the lexical reasons for excluding a row at ingest
noise_tokens == {"utdatert", "copy", "kopi"}

\* mutant: only the summary rows are excluded
IsNoise_Never(category) == FALSE

IsNoise(category) == \E tok \in noise_tokens : Contains(lower(astype_str(category)), tok)

\* lines 59-104 for one kept row: cells is the source row, names the renamed
\* header, id the row's position among the kept rows
IngestRow(names, cells, id) ==
    LET category == cells[ColumnIndex(names, "category")]
        detected == detect_all(category)
        construction_a == fillna(to_numeric(cells[ColumnIndex(names, "construction_a")]), 0)
        operation_b == fillna(to_numeric(cells[ColumnIndex(names, "operation_b")]), 0)
        end_of_life_c == fillna(to_numeric(cells[ColumnIndex(names, "end_of_life_c")]), 0)
        total_gwp_base == construction_a + operation_b + end_of_life_c
        weighting ==
            clip(IF ~HasColumn(names, "weighting") THEN Percent
                 ELSE fillna(to_numeric(cells[ColumnIndex(names, "weighting")]), Percent),
                 0, Percent)
    IN  [category |-> category,
         construction_a |-> construction_a,
         operation_b |-> operation_b,
         end_of_life_c |-> end_of_life_c,
         is_summary |-> is_summary_row(category),
         suggested_scenario |-> detected.scenario,
         suggested_discipline |-> detected.discipline,
         suggested_mmi_code |-> detected.mmi_code,
         suggested_mmi_label |-> detected.mmi_label,
         mapped_scenario |-> detected.scenario,
         mapped_discipline |-> detected.discipline,
         mapped_mmi_code |-> detected.mmi_code,
         excluded |-> (is_summary_row(category) \/ IsNoise(category)),
         total_gwp_base |-> total_gwp_base,
         weighting |-> weighting,
         total_gwp |-> weighted_gwp(total_gwp_base, weighting),
         row_id |-> id]

\* mutant: row_id is the row's position in the source sheet
load_excel_file_SourceIds(file) ==
    LET names == renamed_columns(file.columns)
        missing == missing_columns(file.columns)
        Kept(k) == KeepRow(file.rows[k][ColumnIndex(names, "category")])
        kept == SelectSeq([k \in 1..Len(file.rows) |-> k], Kept)
    IN  IF missing # <<>> THEN [ok |-> FALSE, missing |-> missing, rows |-> <<>>]
        ELSE [ok |-> TRUE, missing |-> <<>>,
              rows |-> [k \in 1..Len(kept) |->
                            IngestRow(names, file.rows[kept[k]], kept[k] - 1)]]

\* load_excel_file: [ok |-> FALSE, missing] when it raises, else the frame
load_excel_file(file) ==
    LET names == renamed_columns(file.columns)
        missing == missing_columns(file.columns)
        Kept(cells) == KeepRow(cells[ColumnIndex(names, "category")])
        kept == SelectSeq(file.rows, Kept)
    IN  IF missing # <<>> THEN [ok |-> FALSE, missing |-> missing, rows |-> <<>>]
        ELSE [ok |-> TRUE, missing |-> <<>>,
              rows |-> [k \in 1..Len(kept) |-> IngestRow(names, kept[k], k - 1)]]

(***************************************************************************)
(* utils/predefined_structure.py                                           *)
(***************************************************************************)
SCENARIOS == {"A", "B", "C", "D"}
DISCIPLINES == {"RIV", "ARK", "RIE", "RIB", "RIBp"}
MMI_CODES == ("300" :> "NY") @@ ("700" :> "EKS") @@ ("800" :> "GJEN") @@ ("900" :> "RIVES")

\* lines 65-81
validate_combination(scenario, discipline, mmi_code) ==
    /\ scenario \in SCENARIOS
    /\ discipline \in DISCIPLINES
    /\ mmi_code \in DOMAIN MMI_CODES

(***************************************************************************)
(* utils/data_parser.py: apply_user_mapping, aggregate_by_mapping,         *)
(* compare_scenarios                                                       *)
(***************************************************************************)
\* apply_user_mapping for mapping_updates = {row_id: updates}; updates.keys
\* are the keys the dictionary holds
apply_user_mapping(rows, row_id, updates) ==
    [k \in 1..Len(rows) |->
        IF rows[k].row_id # row_id THEN rows[k]
        ELSE [rows[k] EXCEPT
                !.mapped_scenario =
                    IF "scenario" \in updates.keys THEN updates.scenario ELSE @,
                !.mapped_discipline =
                    IF "discipline" \in updates.keys THEN updates.discipline ELSE @,
                !.mapped_mmi_code =
                    IF "mmi_code" \in updates.keys THEN updates.mmi_code ELSE @,
                !.excluded =
                    IF "excluded" \in updates.keys THEN updates.excluded ELSE @]]

\* line 123, df = df.copy(): the frame the caller passed, as it is after the call
apply_user_mapping_frame(rows, row_id, updates) == rows

RECURSIVE Sum(_, _)
\* Series.sum() of the values f[i], i in S
Sum(f, S) ==
    IF S = {} THEN 0
    ELSE LET i == CHOOSE x \in S : TRUE
         IN  f[i] + Sum(f, S \ {i})

\* Series.notna() on a mapping column
notna(v) == v # None

\* mutant: excluded rows are not filtered out
IsMapped_KeepExcluded(row) ==
    /\ notna(row.mapped_scenario)
    /\ notna(row.mapped_discipline)
    /\ notna(row.mapped_mmi_code)

\* lines 169-176: the row is in df_mapped
IsMapped(row) ==
    /\ ~row.excluded
    /\ notna(row.mapped_scenario)
    /\ notna(row.mapped_discipline)
    /\ notna(row.mapped_mmi_code)

\* mutant: the phase sums are weighted like total_gwp, so that an item of
\* weighting 0 adds nothing to them
Totals_WeightedPhases(rows, data) ==
    [construction_a |->
        Sum([i \in data |-> (rows[i].construction_a * rows[i].weighting) \div Percent], data),
     operation_b |->
        Sum([i \in data |-> (rows[i].operation_b * rows[i].weighting) \div Percent], data),
     end_of_life_c |->
        Sum([i \in data |-> (rows[i].end_of_life_c * rows[i].weighting) \div Percent], data),
     total_gwp |-> Sum([i \in data |-> rows[i].total_gwp], data),
     count |-> Cardinality(data)]

\* the sums and the count stored at a node for the rows (positions) in data
Totals(rows, data) ==
    [construction_a |-> Sum([i \in data |-> rows[i].construction_a], data),
     operation_b |-> Sum([i \in data |-> rows[i].operation_b], data),
     end_of_life_c |-> Sum([i \in data |-> rows[i].end_of_life_c], data),
     total_gwp |-> Sum([i \in data |-> rows[i].total_gwp], data),
     count |-> Cardinality(data)]

\* mutant: the discipline group is taken from every mapped row, not from the
\* scenario's rows
DisciplineData_AllScenarios(rows, scenario_data, discipline) ==
    {i \in 1..Len(rows) : IsMapped(rows[i]) /\ rows[i].mapped_discipline = discipline}

\* line 196: scenario_data[scenario_data['mapped_discipline'] == discipline]
DisciplineData(rows, scenario_data, discipline) ==
    {i \in scenario_data : rows[i].mapped_discipline = discipline}

\* lines 216-223: an MMI node is its label and the totals of its rows
LabelledTotals(label, total) ==
    [label |-> label,
     construction_a |-> total.construction_a,
     operation_b |-> total.operation_b,
     end_of_life_c |-> total.end_of_life_c,
     total_gwp |-> total.total_gwp,
     count |-> total.count]

\* lines 209-223: the MMI node of the rows in mmi_data
MmiNode(rows, mmi_code, mmi_data) ==
    LabelledTotals(IF mmi_code \in DOMAIN MMI_CODES THEN MMI_CODES[mmi_code] ELSE "UKJENT",
                   Totals(rows, mmi_data))

\* lines 195-223: the discipline node of the rows in discipline_data
DisciplineNode(rows, discipline_data) ==
    [mmi_categories |->
        [mmi_code \in {rows[i].mapped_mmi_code : i \in discipline_data} |->
            MmiNode(rows, mmi_code,
                    {i \in discipline_data : rows[i].mapped_mmi_code = mmi_code})],
     total |-> Totals(rows, discipline_data)]

\* the tree: a function from the scenario keys to the scenario nodes
aggregate_by_mapping(rows) ==
    LET df_mapped == {i \in 1..Len(rows) : IsMapped(rows[i])}
    IN  [scenario \in {rows[i].mapped_scenario : i \in df_mapped} |->
            LET scenario_data == {i \in df_mapped : rows[i].mapped_scenario = scenario}
            IN  [disciplines |->
                    [discipline \in {rows[i].mapped_discipline : i \in scenario_data} |->
                        DisciplineNode(rows, DisciplineData(rows, scenario_data, discipline))],
                 total |-> Totals(rows, scenario_data)]]

Metrics == {"construction_a", "operation_b", "end_of_life_c", "total_gwp"}

NoRatio == [null |-> TRUE, num |-> 0, den |-> 1]

\* mutant: a zero base yields ratio 0 instead of None
ratio_ZeroForZeroBase(compare, base) ==
    IF base # 0 THEN [null |-> FALSE, num |-> compare * Percent, den |-> base]
    ELSE [null |-> FALSE, num |-> 0, den |-> 1]

\* mutant: the quotient is taken the other way round
ratio_Inverted(compare, base) ==
    IF base # 0 THEN [null |-> FALSE, num |-> base * Percent, den |-> compare]
    ELSE NoRatio

\* lines 310-313: (compare / base) * 100 as the fraction num/den, or None
ratio(compare, base) ==
    IF base # 0 THEN [null |-> FALSE, num |-> compare * Percent, den |-> base]
    ELSE NoRatio

NoComparison == [empty |-> TRUE]

\* mutant: only the base scenario is looked up before comparing; an absent
\* compare scenario counts as zero
compare_scenarios_BaseOnly(tree, base_scenario, compare_scenario) ==
    IF base_scenario \notin DOMAIN tree
    THEN NoComparison
    ELSE LET base == tree[base_scenario].total
             compare == IF compare_scenario \in DOMAIN tree
                        THEN tree[compare_scenario].total
                        ELSE [key \in Metrics |-> 0]
         IN  [empty |-> FALSE,
              base_scenario |-> base_scenario,
              compare_scenario |-> compare_scenario,
              difference |-> [key \in Metrics |-> compare[key] - base[key]],
              ratio |-> [key \in Metrics |-> ratio(compare[key], base[key])]]

compare_scenarios(tree, base_scenario, compare_scenario) ==
    IF base_scenario \notin DOMAIN tree \/ compare_scenario \notin DOMAIN tree
    THEN NoComparison
    ELSE LET base == tree[base_scenario].total
             compare == tree[compare_scenario].total
         IN  [empty |-> FALSE,
              base_scenario |-> base_scenario,
              compare_scenario |-> compare_scenario,
              difference |-> [key \in Metrics |-> compare[key] - base[key]],
              ratio |-> [key \in Metrics |-> ratio(compare[key], base[key])]]

\* a percentage as the quotient num/den
Quotient(num, den) == [num |-> num, den |-> den]

\* mutant: the completeness is computed without the test for active > 0
get_mapping_statistics_NoGuard(rows) ==
    LET all == 1..Len(rows)
        total == Len(rows)
        excluded == Cardinality({k \in all : rows[k].excluded})
        active == total - excluded
        df_active == {k \in all : ~rows[k].excluded}
        fully_mapped ==
            {k \in df_active : /\ notna(rows[k].mapped_scenario)
                               /\ notna(rows[k].mapped_discipline)
                               /\ notna(rows[k].mapped_mmi_code)}
        partially_mapped ==
            {k \in df_active : \/ ~notna(rows[k].mapped_scenario)
                               \/ ~notna(rows[k].mapped_discipline)
                               \/ ~notna(rows[k].mapped_mmi_code)}
    IN  [total_rows |-> total,
         excluded_rows |-> excluded,
         active_rows |-> active,
         fully_mapped |-> Cardinality(fully_mapped),
         partially_mapped |-> Cardinality(partially_mapped),
         mapping_completeness |-> Quotient(Cardinality(fully_mapped) * 100, active)]

\* lines 318-353
get_mapping_statistics(rows) ==
    LET all == 1..Len(rows)
        total == Len(rows)
        excluded == Cardinality({k \in all : rows[k].excluded})
        active == total - excluded
        df_active == {k \in all : ~rows[k].excluded}
        fully_mapped ==
            {k \in df_active : /\ notna(rows[k].mapped_scenario)
                               /\ notna(rows[k].mapped_discipline)
                               /\ notna(rows[k].mapped_mmi_code)}
        partially_mapped ==
            {k \in df_active : \/ ~notna(rows[k].mapped_scenario)
                               \/ ~notna(rows[k].mapped_discipline)
                               \/ ~notna(rows[k].mapped_mmi_code)}
    IN  [total_rows |-> total,
         excluded_rows |-> excluded,
         active_rows |-> active,
         fully_mapped |-> Cardinality(fully_mapped),
         partially_mapped |-> Cardinality(partially_mapped),
         mapping_completeness |->
            IF active > 0 THEN Quotient(Cardinality(fully_mapped) * 100, active)
            ELSE Quotient(0, 1)]

(***************************************************************************)
(* utils/data_diagnostics.py                                               *)
(***************************************************************************)
\* the columns check_unmapped_mmi_codes keeps of a row
MismatchColumns(row) ==
    [category |-> row.category,
     suggested_mmi_code |-> row.suggested_mmi_code,
     mapped_mmi_code |-> row.mapped_mmi_code,
     total_gwp |-> row.total_gwp]

\* mutant: the excluded rows are reported too
check_unmapped_mmi_codes_KeepExcluded(rows) ==
    LET Mismatch(row) ==
            /\ notna(row.suggested_mmi_code)
            /\ row.suggested_mmi_code # row.mapped_mmi_code
        Project(rs) == [k \in 1..Len(rs) |-> MismatchColumns(rs[k])]
    IN  Project(SelectSeq(rows, Mismatch))

\* lines 99-105: the rows whose suggested MMI code was not kept
check_unmapped_mmi_codes(rows) ==
    LET Mismatch(row) ==
            /\ notna(row.suggested_mmi_code)
            /\ row.suggested_mmi_code # row.mapped_mmi_code
            /\ ~row.excluded
        Project(rs) == [k \in 1..Len(rs) |-> MismatchColumns(rs[k])]
    IN  Project(SelectSeq(rows, Mismatch))

(***************************************************************************)
(* utils/data_parser.py: the discipline-level comparators                  *)
(***************************************************************************)
\* lines 395-434
compare_disciplines_across_scenarios(tree, discipline, base_scenario, compare_scenario) ==
    IF \/ base_scenario \notin DOMAIN tree
       \/ compare_scenario \notin DOMAIN tree
       \/ discipline \notin DOMAIN tree[base_scenario].disciplines
       \/ discipline \notin DOMAIN tree[compare_scenario].disciplines
    THEN NoComparison
    ELSE LET base == tree[base_scenario].disciplines[discipline].total
             compare == tree[compare_scenario].disciplines[discipline].total
         IN  [empty |-> FALSE,
              discipline |-> discipline,
              base_scenario |-> base_scenario,
              compare_scenario |-> compare_scenario,
              difference |-> [key \in Metrics |-> compare[key] - base[key]],
              ratio |-> [key \in Metrics |-> ratio(compare[key], base[key])]]

\* sorted() on discipline codes
SortedDisciplines == <<"ARK", "RIB", "RIBp", "RIE", "RIV">>

\* the empty pd.DataFrame(), and the empty dict
NoTable == <<>>

\* lines 461-480: one row of the comparison table
DisciplineRow(tree, base_scenario, compare_scenario, discipline) ==
    LET base_total ==
            IF discipline \in DOMAIN tree[base_scenario].disciplines
            THEN tree[base_scenario].disciplines[discipline].total.total_gwp ELSE 0
        compare_total ==
            IF discipline \in DOMAIN tree[compare_scenario].disciplines
            THEN tree[compare_scenario].disciplines[discipline].total.total_gwp ELSE 0
    IN  [Disiplin |-> discipline,
         base_total |-> base_total,
         compare_total |-> compare_total,
         Differanse |-> compare_total - base_total,
         Ratio |-> IF base_total > 0
                   THEN [null |-> FALSE, num |-> compare_total * Percent, den |-> base_total]
                   ELSE NoRatio]

\* mutant: only the disciplines of the base scenario are listed
get_all_disciplines_comparison_BaseOnly(tree, base_scenario, compare_scenario) ==
    IF base_scenario \notin DOMAIN tree \/ compare_scenario \notin DOMAIN tree
    THEN NoTable
    ELSE LET all_disciplines == DOMAIN tree[base_scenario].disciplines
             Listed(discipline) == discipline \in all_disciplines
             sorted == SelectSeq(SortedDisciplines, Listed)
         IN  [k \in 1..Len(sorted) |->
                DisciplineRow(tree, base_scenario, compare_scenario, sorted[k])]

\* lines 437-482
get_all_disciplines_comparison(tree, base_scenario, compare_scenario) ==
    IF base_scenario \notin DOMAIN tree \/ compare_scenario \notin DOMAIN tree
    THEN NoTable
    ELSE LET all_disciplines == DOMAIN tree[base_scenario].disciplines
                                \cup DOMAIN tree[compare_scenario].disciplines
             Listed(discipline) == discipline \in all_disciplines
             sorted == SelectSeq(SortedDisciplines, Listed)
         IN  [k \in 1..Len(sorted) |->
                DisciplineRow(tree, base_scenario, compare_scenario, sorted[k])]

(***************************************************************************)
(* pages/1_Visual_Analysis.py: calculate_top_drivers                       *)
(***************************************************************************)
Abs(x) == IF x < 0 THEN 0 - x ELSE x

\* the orders in which a Python set of these elements may be iterated
Orders(S) ==
    {order \in [1..Cardinality(S) -> S] : \A i, j \in DOMAIN order : order[i] = order[j] => i = j}

\* list.sort(key, reverse=True), keys[i] being the key of list[i]: by
\* non-increasing key, equal keys in the order they had
SortReverse(list, keys) ==
    LET n == Len(list)
        perm == CHOOSE p \in Orders(1..n) :
                    \A i, j \in 1..n :
                        i < j => \/ keys[p[i]] > keys[p[j]]
                                 \/ keys[p[i]] = keys[p[j]] /\ p[i] < p[j]
    IN  [i \in 1..n |-> list[perm[i]]]

\* lines 85-95: the tuple appended for one discipline
Driver(tree, scenario_c, scenario_a, disc) ==
    LET c_gwp == IF scenario_c \in DOMAIN tree /\ disc \in DOMAIN tree[scenario_c].disciplines
                 THEN tree[scenario_c].disciplines[disc].total.total_gwp ELSE 0
        a_gwp == IF scenario_a \in DOMAIN tree /\ disc \in DOMAIN tree[scenario_a].disciplines
                 THEN tree[scenario_a].disciplines[disc].total.total_gwp ELSE 0
    IN  [disc |-> disc,
         diff |-> c_gwp - a_gwp,
         ratio |-> IF a_gwp > 0 THEN Quotient(c_gwp * Percent, a_gwp)
                   ELSE IF c_gwp > 0 THEN Quotient(100, 1) ELSE Quotient(0, 1)]

\* the disciplines of either scenario
AllDisciplines(tree, scenario_c, scenario_a) ==
    (IF scenario_c \in DOMAIN tree THEN DOMAIN tree[scenario_c].disciplines ELSE {})
    \cup (IF scenario_a \in DOMAIN tree THEN DOMAIN tree[scenario_a].disciplines ELSE {})

\* structure[scenario]['total'] of a scenario the tree does not hold
KeyError == [raised |-> TRUE, drivers |-> <<>>]

\* mutant: the drivers are not sorted
calculate_top_drivers_Unsorted(tree, scenario_c, scenario_a, top_n, order) ==
    IF scenario_c \notin DOMAIN tree \/ scenario_a \notin DOMAIN tree THEN KeyError
    ELSE
    LET drivers == [k \in DOMAIN order |-> Driver(tree, scenario_c, scenario_a, order[k])]
        total_diff == tree[scenario_c].total.total_gwp - tree[scenario_a].total.total_gwp
        top == SubSeq(drivers, 1, IF Len(drivers) < top_n THEN Len(drivers) ELSE top_n)
    IN  [raised |-> FALSE,
         drivers |->
            [k \in DOMAIN top |->
                [disc |-> top[k].disc,
                 diff |-> top[k].diff,
                 pct_of_diff |-> IF total_diff # 0
                                 THEN Quotient(top[k].diff * 100, total_diff)
                                 ELSE Quotient(0, 1),
                 ratio |-> top[k].ratio]]]

\* lines 74-112; order is the order in which the set all_disciplines is
\* iterated
calculate_top_drivers(tree, scenario_c, scenario_a, top_n, order) ==
    IF scenario_c \notin DOMAIN tree \/ scenario_a \notin DOMAIN tree THEN KeyError
    ELSE
    LET unsorted == [k \in DOMAIN order |-> Driver(tree, scenario_c, scenario_a, order[k])]
        drivers == SortReverse(unsorted, [k \in DOMAIN order |-> Abs(unsorted[k].diff)])
        total_diff == tree[scenario_c].total.total_gwp - tree[scenario_a].total.total_gwp
        top == SubSeq(drivers, 1, IF Len(drivers) < top_n THEN Len(drivers) ELSE top_n)
    IN  [raised |-> FALSE,
         drivers |->
            [k \in DOMAIN top |->
                [disc |-> top[k].disc,
                 diff |-> top[k].diff,
                 pct_of_diff |-> IF total_diff # 0
                                 THEN Quotient(top[k].diff * 100, total_diff)
                                 ELSE Quotient(0, 1),
                 ratio |-> top[k].ratio]]]

(***************************************************************************)
(* utils/report_generator.py: generate_insights, the part that reads the   *)
(* comparison of scenario C with scenario A.  The findings on the MMI      *)
(* distribution, the largest discipline and the completeness do not read   *)
(* it and are left out of the result.                                      *)
(***************************************************************************)
\* ratio < n and ratio > n for a ratio num/den that is not None
RatioBelow(r, n) == IF r.den > 0 THEN r.num < n * r.den ELSE r.num > n * r.den
RatioAbove(r, n) == IF r.den > 0 THEN r.num > n * r.den ELSE r.num < n * r.den

\* ratio < 90 where ratio is None
TypeError == [raised |-> TRUE, verdict |-> None, color |-> None, findings |-> {},
              recommendation |-> None]

NoInsight == [raised |-> FALSE, verdict |-> None, color |-> None, findings |-> {},
              recommendation |-> None]

Phases == {"construction_a", "operation_b", "end_of_life_c"}

\* line 118: phase_ratio and abs(100 - phase_ratio) > 10
PhaseFinding(phase_ratio) ==
    /\ ~phase_ratio.null
    /\ phase_ratio.num # 0
    /\ RatioBelow(phase_ratio, 90) \/ RatioAbove(phase_ratio, 110)

\* lines 69-129 and 168-184: the verdict (okning stands for the source's
\* word with a Norwegian o), the phases reported as findings and the
\* recommendation drawn from the ratio
generate_insights(tree) ==
    IF "C" \notin DOMAIN tree \/ "A" \notin DOMAIN tree THEN NoInsight
    ELSE LET compared == compare_scenarios(tree, "A", "C")
             total_ratio == compared.ratio["total_gwp"]
         IN  IF total_ratio.null THEN TypeError
             ELSE [raised |-> FALSE,
                   verdict |-> IF RatioBelow(total_ratio, 90) THEN "betydelig reduksjon"
                               ELSE IF RatioBelow(total_ratio, 100) THEN "moderat reduksjon"
                               ELSE IF RatioBelow(total_ratio, 110) THEN "liten okning"
                               ELSE "betydelig okning",
                   color |-> IF RatioBelow(total_ratio, 100) THEN "green"
                             ELSE IF RatioBelow(total_ratio, 110) THEN "yellow"
                             ELSE "red",
                   findings |-> {key \in Phases : PhaseFinding(compared.ratio[key])},
                   recommendation |->
                       IF RatioAbove(total_ratio, 110) THEN "higher"
                       ELSE IF RatioBelow(total_ratio, 90) THEN "reduction"
                       ELSE IF ~RatioBelow(total_ratio, 100) THEN "alike"
                       ELSE None]

(***************************************************************************)
(* The session before anything is uploaded (main.py, session state         *)
(* initialisation)                                                         *)
(***************************************************************************)
NoFrame == [held |-> FALSE, rows |-> <<>>]
EmptyTree == <<>>
NoCall == [fn |-> "", val |-> None]

SessionInit ==
    /\ df = NoFrame
    /\ pipeline_step = 1
    /\ structure = EmptyTree
    /\ comparison = NoComparison
    /\ error = <<>>
    /\ edits = 0

sessionVars == <<df, pipeline_step, structure, comparison, error, edits>>

(***************************************************************************)
(* main.py: one action per run of the page.  A run with a file uploaded    *)
(* and no frame held ingests (and reruns or stops); a run with a frame     *)
(* held goes through the data editor's edit loop, the recalculation of the *)
(* weighted totals and the analysis of Step 4.                             *)
(***************************************************************************)
MaxEdits == 2

Max(a, b) == IF a > b THEN a ELSE b

\* mutant: the uploaded file is processed on every run, a frame held or not
Ingest_EveryRun(file) ==
    /\ LET loaded == load_excel_file(file)
       IN  IF loaded.ok
           THEN /\ df' = [held |-> TRUE, rows |-> loaded.rows]
                /\ pipeline_step' = 2
                /\ error' = <<>>
           ELSE /\ error' = loaded.missing
                /\ UNCHANGED <<df, pipeline_step>>
    /\ UNCHANGED <<structure, comparison, edits, arg, ret>>

\* lines 193-203: Process Excel file
Ingest(file) ==
    /\ ~df.held
    /\ LET loaded == load_excel_file(file)
       IN  IF loaded.ok
           THEN /\ df' = [held |-> TRUE, rows |-> loaded.rows]
                /\ pipeline_step' = 2
                /\ error' = <<>>
           ELSE /\ error' = loaded.missing
                /\ UNCHANGED <<df, pipeline_step>>
    /\ UNCHANGED <<structure, comparison, edits, arg, ret>>

\* the editable columns of the rows as st.data_editor shows them
EditorView(rows) ==
    [k \in 1..Len(rows) |->
        [mapped_scenario |-> rows[k].mapped_scenario,
         mapped_discipline |-> rows[k].mapped_discipline,
         mapped_mmi_code |-> rows[k].mapped_mmi_code,
         weighting |-> Num(rows[k].weighting),
         excluded |-> rows[k].excluded]]

\* lines 364-365: the weighting column after an edit
recalc_weighting(weighting) == clip(fillna(to_numeric(weighting), Percent), 0, Percent)

\* mutant: total_gwp is left as it was
recalc_total_gwp_Stale(row, weighting) == row.total_gwp

\* line 366: the weighted total after an edit
recalc_total_gwp(row, weighting) == weighted_gwp(row.total_gwp_base, weighting)

\* mutant: the recalculation overwrites the base total with the weighted one
edit_loop_Rebase(rows, edited_df) ==
    [k \in 1..Len(rows) |->
        [rows[k] EXCEPT
            !.mapped_scenario = edited_df[k].mapped_scenario,
            !.mapped_discipline = edited_df[k].mapped_discipline,
            !.mapped_mmi_code = edited_df[k].mapped_mmi_code,
            !.excluded = edited_df[k].excluded,
            !.weighting = recalc_weighting(edited_df[k].weighting),
            !.total_gwp_base =
                (rows[k].total_gwp_base * recalc_weighting(edited_df[k].weighting)) \div Percent,
            !.total_gwp = recalc_total_gwp(rows[k], recalc_weighting(edited_df[k].weighting))]]

\* lines 355-366: the rows after the editor's values are written back and the
\* weighted totals recalculated
edit_loop(rows, edited_df) ==
    [k \in 1..Len(rows) |->
        [rows[k] EXCEPT
            !.mapped_scenario = edited_df[k].mapped_scenario,
            !.mapped_discipline = edited_df[k].mapped_discipline,
            !.mapped_mmi_code = edited_df[k].mapped_mmi_code,
            !.excluded = edited_df[k].excluded,
            !.weighting = recalc_weighting(edited_df[k].weighting),
            !.total_gwp = recalc_total_gwp(rows[k], recalc_weighting(edited_df[k].weighting))]]

\* lines 246-452: a run of the page with a frame held; edited_df is what the
\* data editor returns and n the number of cells the user changed in it
PageRun(edited_df, n) ==
    /\ df.held
    /\ edits + n <= MaxEdits
    /\ df' = [held |-> TRUE, rows |-> edit_loop(df.rows, edited_df)]
    /\ pipeline_step' = Max(Max(Max(pipeline_step, 3), 4), 5)
    /\ structure' = aggregate_by_mapping(df'.rows)
    /\ comparison' = IF "C" \in DOMAIN structure' /\ "A" \in DOMAIN structure'
                     THEN compare_scenarios(structure', "A", "C")
                     ELSE NoComparison
    /\ error' = <<>>
    /\ edits' = edits + n
    /\ UNCHANGED <<arg, ret>>

\* what the user may put into a cell of the data editor
ScenarioChoices == {"C", None}
DisciplineChoices == {"ARK", None}
MmiChoices == {"700", None}
WeightingChoices == {Num(50), Num(150), Num(-5), NaN}

Rerun == PageRun(EditorView(df.rows), 0)

EditScenario ==
    \E k \in 1..Len(df.rows), v \in ScenarioChoices :
        PageRun([EditorView(df.rows) EXCEPT ![k].mapped_scenario = v], 1)

EditDiscipline ==
    \E k \in 1..Len(df.rows), v \in DisciplineChoices :
        PageRun([EditorView(df.rows) EXCEPT ![k].mapped_discipline = v], 1)

EditMmi ==
    \E k \in 1..Len(df.rows), v \in MmiChoices :
        PageRun([EditorView(df.rows) EXCEPT ![k].mapped_mmi_code = v], 1)

EditWeighting ==
    \E k \in 1..Len(df.rows), v \in WeightingChoices :
        PageRun([EditorView(df.rows) EXCEPT ![k].weighting = v], 1)

EditExcluded ==
    \E k \in 1..Len(df.rows), v \in BOOLEAN :
        PageRun([EditorView(df.rows) EXCEPT ![k].excluded = v], 1)

\* the mapping_updates a caller of apply_user_mapping may pass for one row
Update(keys, scenario, discipline, mmi_code, excluded) ==
    [keys |-> keys, scenario |-> scenario, discipline |-> discipline,
     mmi_code |-> mmi_code, excluded |-> excluded]

UpdateChoices ==
    {Update({"scenario"}, "B", None, None, FALSE),
     Update({"scenario"}, "E", None, None, FALSE),
     Update({"discipline", "mmi_code"}, None, "RIBp", "900", FALSE),
     Update({"mmi_code"}, None, None, None, FALSE),
     Update({"excluded"}, None, None, None, FALSE)}

RowIdChoices == {0, 3, 99}

\* a caller replaces the held frame by apply_user_mapping's result
ApplyUserMapping ==
    \E row_id \in RowIdChoices, updates \in UpdateChoices :
        /\ df.held
        /\ edits < MaxEdits
        /\ df' = [held |-> TRUE, rows |-> apply_user_mapping(df.rows, row_id, updates)]
        /\ edits' = edits + 1
        /\ UNCHANGED <<pipeline_step, structure, comparison, error, arg, ret>>

\* lines 642-644: Start Over
StartOver ==
    /\ df.held
    /\ df' = NoFrame
    /\ pipeline_step' = 1
    /\ structure' = EmptyTree
    /\ comparison' = NoComparison
    /\ error' = <<>>
    /\ edits' = 0
    /\ UNCHANGED <<arg, ret>>

Init == SessionInit /\ arg = NaN /\ ret = NoCall

Next ==
    \/ \E file \in Files : Ingest(file)
    \/ Rerun
    \/ EditScenario
    \/ EditDiscipline
    \/ EditMmi
    \/ EditWeighting
    \/ EditExcluded
    \/ ApplyUserMapping
    \/ StartOver

Spec == Init /\ [][Next]_vars

(***************************************************************************)
(* Detector calls: the argument is drawn from category strings built of    *)
(* the pieces each detector looks for, and from non-string values.         *)
(***************************************************************************)
MaxAtoms == 3
MaxTail == 2

RECURSIVE Concats(_, _)
\* the strings made of at most n pieces
Concats(atoms, n) ==
    IF n = 0 THEN {""}
    ELSE LET shorter == Concats(atoms, n - 1)
         IN  shorter \cup {a \o b : a \in shorter, b \in atoms}

\* the category strings of tests/test_detector.py and tests/conftest.py
TestCategories ==
    {"Scenario A - RIV - MMI300", "Scenario C - ARK - MMI700", "scenario a - RIV",
     "SCENARIO C - ARK", "A - Scenario C - RIE", "A-RIV-MMI300", "Random text", "",
     "Scenario A - RIE - MMI800", "Scenario A - RIBp - MMI300", "Scenario A - RIB - MMI300",
     "Scenario C - ARK - MMI 700", "MMI800", "Scenario A - RIV - Nybygg",
     "S8 - RAMBELL", "Total", "Sum", "RAMBOELL", "Scenario A - RIV", "Normal data",
     "Scenario A - Random"}

NonStrings == {Num(8), NaN, Missing}

ScenarioAtoms == {"Scenario", "scenario", "A", "C", "b", " ", "-", "_", "x"}
ScenarioLetters == {"A", "B", "C", "D"}

\* '<X> - Scenario <Y> ...'
LeadingLetterForm(X, Y, tail) == X \o " - Scenario " \o Y \o tail

ScenarioInputs ==
    {Str(s) : s \in Concats(ScenarioAtoms, MaxAtoms) \cup TestCategories}
    \cup {Str(LeadingLetterForm(X, Y, tail)) :
            X \in ScenarioLetters, Y \in ScenarioLetters, tail \in Concats(ScenarioAtoms, MaxTail)}
    \cup NonStrings

DisciplineAtoms == {"RIBp", "RIB", "ribp", "RIV", "ARK", " ", "-", "_", "x", "."}

DisciplineInputs ==
    {Str(s) : s \in Concats(DisciplineAtoms, MaxAtoms) \cup TestCategories} \cup NonStrings

MmiAtoms == {"Existing Waste", "existing waste", "Existing", "MMI", "700", "300", "New",
             "Reused", "demo", " ", "-", "_", "x"}

\* categories that hold several codes or several keywords at once
MmiPhrases ==
    {"300 MMI-700", "300 MMI_700", "Reused 300 MMI 700", "New Reused xexisting waste",
     "demo Reused New", "Kept_Ny", "Ny-Gjenbruk-Eks", "Reused New x300x"}

MmiInputs ==
    {Str(s) : s \in Concats(MmiAtoms, MaxAtoms) \cup TestCategories \cup MmiPhrases}
    \cup NonStrings

SummaryAtoms == {"RAMBOELL", "RAMBELL", "Ramboll", "S", "8", " ", "-", "Total", "sum",
                 "Totalt", "RIV", "x"}

SummaryInputs ==
    {Str(s) : s \in Concats(SummaryAtoms, MaxAtoms) \cup TestCategories} \cup NonStrings

AllAtoms == {"Scenario A", "C", "RIBp", "RIV", "MMI300", "700", "Reused",
             "Existing Waste", " - ", "_", "x"}

AllInputs ==
    {Str(s) : s \in Concats(AllAtoms, MaxAtoms) \cup TestCategories} \cup NonStrings

Call(fn, val) ==
    /\ ret = NoCall
    /\ ret' = [fn |-> fn, val |-> val]
    /\ UNCHANGED <<sessionVars, arg>>

CallDetectScenario == Call("detect_scenario", detect_scenario(arg))
CallDetectDiscipline == Call("detect_discipline", detect_discipline(arg))
CallDetectMmi == Call("detect_mmi", detect_mmi(arg))
CallIsSummaryRow == Call("is_summary_row", is_summary_row(arg))
CallDetectAll == Call("detect_all", detect_all(arg))

InitScenario == SessionInit /\ arg \in ScenarioInputs /\ ret = NoCall
InitDiscipline == SessionInit /\ arg \in DisciplineInputs /\ ret = NoCall
InitMmi == SessionInit /\ arg \in MmiInputs /\ ret = NoCall
InitSummary == SessionInit /\ arg \in SummaryInputs /\ ret = NoCall
InitAll == SessionInit /\ arg \in AllInputs /\ ret = NoCall

SpecScenario == InitScenario /\ [][CallDetectScenario]_vars
SpecDiscipline == InitDiscipline /\ [][CallDetectDiscipline]_vars
SpecMmi == InitMmi /\ [][CallDetectMmi]_vars
SpecSummary == InitSummary /\ [][CallIsSummaryRow]_vars
SpecAll == InitAll /\ [][CallDetectAll]_vars

(***************************************************************************)
(* Analysis calls: a sheet of a few line items is ingested and the         *)
(* comparators are called on the tree of its rows.                         *)
(***************************************************************************)
MaxItems == 2

RECURSIVE SeqsUpTo(_, _)
\* the sequences of at most n elements of S
SeqsUpTo(S, n) ==
    IF n = 0 THEN {<<>>}
    ELSE LET shorter == SeqsUpTo(S, n - 1)
         IN  shorter \cup {Append(s, x) : s \in shorter, x \in S}

AnalysisCategories ==
    {"Scenario A - RIV - New", "Scenario C - RIV - New", "Scenario C - ARK - Reused"}

\* the three phase amounts and the weighting of a line item
AnalysisAmounts ==
    {<<0 - 200, 0, 0, 100>>, <<100, 0, 0, 100>>, <<300, 40, 10, 100>>, <<300, 40, 10, 0>>}

AnalysisCells ==
    {<<Str(category), Num(amounts[1]), Num(amounts[2]), Num(amounts[3]), Num(amounts[4])>> :
        category \in AnalysisCategories, amounts \in AnalysisAmounts}

AnalysisFiles ==
    {[columns |-> <<"category", "Construction (A)", "Operation (B)", "End-of-life (C)",
                    "weighting">>,
      rows |-> rows] :
        rows \in SeqsUpTo(AnalysisCells, MaxItems) \ {<<>>}}

\* the base and compare scenarios of a comparison; no row is mapped to B
AnalysisPairs == {<<"A", "C">>, <<"C", "A">>, <<"A", "B">>}

\* a call on the tree of the held rows: args is kept in arg, the result in ret
CallAnalysis(fn, args, val) ==
    /\ df.held
    /\ ret.fn = ""
    /\ arg' = args
    /\ ret' = [fn |-> fn, val |-> val]
    /\ UNCHANGED sessionVars

ScenarioArgs(base_scenario, compare_scenario) ==
    [base_scenario |-> base_scenario, compare_scenario |-> compare_scenario]

CallGetAllDisciplinesComparison ==
    \E pair \in AnalysisPairs :
        CallAnalysis("get_all_disciplines_comparison", ScenarioArgs(pair[1], pair[2]),
                     get_all_disciplines_comparison(aggregate_by_mapping(df.rows),
                                                    pair[1], pair[2]))

CallCalculateTopDrivers ==
    \E pair \in AnalysisPairs, top_n \in {1, 3} :
        \A tree \in {aggregate_by_mapping(df.rows)} :
            \E order \in Orders(AllDisciplines(tree, pair[2], pair[1])) :
                CallAnalysis("calculate_top_drivers",
                             [scenario_c |-> pair[2], scenario_a |-> pair[1], top_n |-> top_n],
                             calculate_top_drivers(tree, pair[2], pair[1], top_n, order))

CallCompareDisciplinesAcrossScenarios ==
    \E pair \in AnalysisPairs, discipline \in {"RIV", "ARK"} :
        CallAnalysis("compare_disciplines_across_scenarios",
                     [discipline |-> discipline, base_scenario |-> pair[1],
                      compare_scenario |-> pair[2]],
                     compare_disciplines_across_scenarios(aggregate_by_mapping(df.rows),
                                                          discipline, pair[1], pair[2]))

CallGenerateInsights ==
    CallAnalysis("generate_insights", [none |-> TRUE], generate_insights(aggregate_by_mapping(df.rows)))

NextAnalysis ==
    \/ \E file \in AnalysisFiles : Ingest(file)
    \/ CallGetAllDisciplinesComparison
    \/ CallCalculateTopDrivers
    \/ CallGenerateInsights
    \/ CallCompareDisciplinesAcrossScenarios

SpecAnalysis == Init /\ [][NextAnalysis]_vars

(***************************************************************************)
(* Claims about the session: ingest, edits, aggregation, comparison        *)
(***************************************************************************)
Rows == 1..Len(df.rows)

\* C1: after ingest and after every edit, each line item has a weighting in
\* 0..100 and total_gwp = total_gwp_base * weighting / 100 (total_gwp is held
\* in hundredths): an out-of-range weighting is clamped and the total is
\* recomputed in the step that makes the edit.
C1_WeightingInvariant ==
    \A k \in Rows :
        /\ df.rows[k].weighting \in 0..Percent
        /\ df.rows[k].total_gwp = df.rows[k].total_gwp_base * df.rows[k].weighting

\* C1 witness: the first row of the end-to-end sheet (ingested at weighting
\* 100, base 1000) after the user typed a weighting below 0: clamped to 0
C1_Witness ==
    /\ df.held
    /\ Len(df.rows) = 4
    /\ df.rows[1].category = Str("Scenario A - RIV - New")
    /\ df.rows[1].total_gwp_base = 1000
    /\ df.rows[1].weighting = 0
    /\ df.rows[1].total_gwp = 0
    /\ edits = 1

\* the rows that count for scenario s: active and fully mapped to it
ActiveMappedTo(s) ==
    {k \in Rows :
        /\ df.rows[k].excluded = FALSE
        /\ df.rows[k].mapped_scenario # None
        /\ df.rows[k].mapped_discipline # None
        /\ df.rows[k].mapped_mmi_code # None
        /\ df.rows[k].mapped_scenario = s}

\* every scenario key a row or a tree can carry in this model
ScenarioKeys == SCENARIOS \cup {"E"}

\* C2: for every scenario key s, the tree of aggregate_by_mapping has the key
\* s exactly when some active, fully mapped item is mapped to s, and then the
\* scenario's total_gwp is the sum of total_gwp over exactly those items.
C2_ScenarioTotal ==
    \A tree \in {aggregate_by_mapping(df.rows)} :
        /\ DOMAIN tree \subseteq ScenarioKeys
        /\ \A s \in ScenarioKeys :
            /\ s \in DOMAIN tree <=> ActiveMappedTo(s) # {}
            /\ s \in DOMAIN tree =>
                tree[s].total.total_gwp =
                    Sum([k \in ActiveMappedTo(s) |-> df.rows[k].total_gwp], ActiveMappedTo(s))

\* C2 witness: the reloaded sheet, where an excluded but fully mapped row
\* ('... copy', scenario C) stays out of scenario C's total
C2_Witness ==
    /\ df.held
    /\ Len(df.rows) = 5
    /\ df.rows[3].excluded /\ df.rows[3].mapped_scenario = "C" /\ df.rows[3].total_gwp # 0
    /\ structure = aggregate_by_mapping(df.rows)
    /\ "C" \in DOMAIN structure
    /\ structure["C"].total.total_gwp = df.rows[2].total_gwp

TotalFields == {"construction_a", "operation_b", "end_of_life_c", "total_gwp", "count"}

\* C3: in every tree each scenario node's totals are the elementwise sums of
\* its discipline nodes' totals, each discipline node's totals the sums of
\* its MMI nodes' values, and every node counts at least one item.
C3_NodeSums ==
    \A tree \in {aggregate_by_mapping(df.rows)} :
        \A s \in DOMAIN tree :
            \A ds \in {tree[s].disciplines} :
                /\ tree[s].total.count >= 1
                /\ \A f \in TotalFields :
                    tree[s].total[f] = Sum([d \in DOMAIN ds |-> ds[d].total[f]], DOMAIN ds)
                /\ \A d \in DOMAIN ds :
                    \A ms \in {ds[d].mmi_categories} :
                        /\ ds[d].total.count >= 1
                        /\ \A f \in TotalFields :
                            ds[d].total[f] = Sum([m \in DOMAIN ms |-> ms[m][f]], DOMAIN ms)
                        /\ \A m \in DOMAIN ms : ms[m].count >= 1

\* C3 witness: the end-to-end sheet analysed: scenario C has one discipline
\* with three MMI nodes, and RIV occurs under both scenarios
C3_Witness ==
    /\ df.held
    /\ structure = aggregate_by_mapping(df.rows)
    /\ DOMAIN structure = {"A", "C"}
    /\ DOMAIN structure["C"].disciplines = {"RIV"}
    /\ DOMAIN structure["C"].disciplines["RIV"].mmi_categories = {"300", "700", "800"}
    /\ structure["C"].total.count = 3

\* C4: for each metric on its own, compare_scenarios gives ratio None exactly
\* when the base scenario's total for that metric is 0 and compare/base*100
\* otherwise (the quotient num/den of 100*compare by base), and
\* difference = compare - base in both cases.
C4_ZeroBaseRatio ==
    \A tree \in {aggregate_by_mapping(df.rows)} :
        \A b \in DOMAIN tree, c \in DOMAIN tree :
            \A r \in {compare_scenarios(tree, b, c)} :
                /\ ~r.empty
                /\ \A key \in Metrics :
                    /\ r.difference[key] = tree[c].total[key] - tree[b].total[key]
                    /\ r.ratio[key].null <=> tree[b].total[key] = 0
                    /\ ~r.ratio[key].null =>
                        /\ r.ratio[key].num = 100 * tree[c].total[key]
                        /\ r.ratio[key].den = tree[b].total[key]

\* C4 witness: scenario A weighted down to 0: the page's comparison of A and C
\* has no total_gwp ratio, a construction ratio, and every difference
C4_Witness ==
    /\ ~comparison.empty
    /\ comparison.ratio["total_gwp"].null
    /\ ~comparison.ratio["construction_a"].null
    /\ comparison.difference["total_gwp"] # 0

\* the frame holds the four rows of the end-to-end sheet and no edit was made
EndToEndLoaded ==
    /\ df.held
    /\ edits = 0
    /\ Len(df.rows) = 4
    /\ [k \in 1..4 |-> df.rows[k].category] =
        <<Str("Scenario A - RIV - New"), Str("Scenario C - RIV - New"),
          Str("Scenario C - RIV - Existing"), Str("Scenario C - RIV - Reused")>>
    /\ [k \in 1..4 |-> df.rows[k].construction_a] = <<1000, 800, 100, 50>>

\* C5: the four-row end-to-end sheet with no edits: all rows active and fully
\* mapped; once analysed, scenario A totals 1000 and scenario C 950, and the
\* comparison of A with C gives difference -50 and ratio 95.0 for total_gwp.
C5_EndToEnd ==
    EndToEndLoaded =>
        /\ \A k \in 1..4 : ~df.rows[k].excluded /\ IsMapped(df.rows[k])
        /\ [k \in 1..4 |-> df.rows[k].mapped_scenario] = <<"A", "C", "C", "C">>
        /\ pipeline_step = 5 =>
            /\ DOMAIN structure = {"A", "C"}
            /\ structure["A"].total.total_gwp = 1000 * 100
            /\ structure["C"].total.total_gwp = 950 * 100
            /\ ~comparison.empty
            /\ comparison.difference["total_gwp"] = (0 - 50) * 100
            /\ ~comparison.ratio["total_gwp"].null
            /\ comparison.ratio["total_gwp"].num = 95 * comparison.ratio["total_gwp"].den

\* C5 witness: the end-to-end sheet ingested and analysed, nothing edited
C5_Witness == EndToEndLoaded /\ pipeline_step = 5 /\ ~comparison.empty

\* the rows without row k
Without(rows, k) == [j \in 1..(Len(rows) - 1) |-> IF j < k THEN rows[j] ELSE rows[j + 1]]

\* the user turns off the excluded flag of row k in this step
UserIncludes(k) ==
    \/ df'.rows = edit_loop(df.rows, [EditorView(df.rows) EXCEPT ![k].excluded = FALSE])
    \/ \E updates \in UpdateChoices :
        /\ "excluded" \in updates.keys
        /\ updates.excluded = FALSE
        /\ df'.rows = apply_user_mapping(df.rows, df.rows[k].row_id, updates)

\* is_summary is what is_summary_row said at ingest, a summary row is excluded
\* as long as nothing was edited, and an excluded summary row adds to no node:
\* the tree is the tree of the other rows
SummaryRowsSeededAndSilent ==
    \A k \in Rows :
        /\ df.rows[k].is_summary = is_summary_row(df.rows[k].category)
        /\ edits = 0 /\ df.rows[k].is_summary => df.rows[k].excluded
        /\ df.rows[k].is_summary /\ df.rows[k].excluded =>
            aggregate_by_mapping(df.rows) = aggregate_by_mapping(Without(df.rows, k))

\* a summary row's excluded flag goes from true to false only in a step in
\* which the user sets it to false
SummaryRowsStayExcluded ==
    \A k \in Rows :
        (/\ df'.held
         /\ Len(df'.rows) = Len(df.rows)
         /\ df.rows[k].is_summary
         /\ df.rows[k].excluded
         /\ ~df'.rows[k].excluded)
        => UserIncludes(k)

\* C6: a row that is_summary_row marks at ingest is ingested with is_summary
\* and excluded true, and until the user sets its excluded flag to false it
\* adds to no node of any tree, whatever else is edited.
C6_SummaryRowsExcluded == [](SummaryRowsSeededAndSilent) /\ [][SummaryRowsStayExcluded]_vars

\* C6 witness: the summary row 'Total Scenario A - RIE - 800' of the reloaded
\* sheet, fully mapped by detection and reweighted by the user, still excluded:
\* scenario A counts the one other row
C6_Witness ==
    /\ df.held
    /\ Len(df.rows) = 5
    /\ df.rows[5].category = Str("Total Scenario A - RIE - 800")
    /\ df.rows[5].is_summary /\ df.rows[5].excluded
    /\ df.rows[5].mapped_scenario = "A" /\ df.rows[5].mapped_discipline = "RIE"
    /\ df.rows[5].mapped_mmi_code = "800"
    /\ df.rows[5].weighting = 50
    /\ df.rows[5].total_gwp # 0
    /\ structure = aggregate_by_mapping(df.rows)
    /\ DOMAIN structure["A"].disciplines = {"RIV"}
    /\ structure["A"].total.count = 1

\* the canonical columns no header of the sheet resolves to, in canonical order
UnresolvedColumns(file) ==
    LET Unresolved(col) ==
            \A k \in 1..Len(file.columns) : column_mapping(file.columns, k) # col
    IN  SelectSeq(<<"category", "construction_a", "operation_b", "end_of_life_c">>, Unresolved)

\* an ingest of a sheet with an unresolved canonical column reports exactly
\* those columns and leaves the session without a frame, at step 1
FailedIngestIsAtomic ==
    \A file \in Files :
        Ingest(file) /\ UnresolvedColumns(file) # <<>> =>
            /\ error' = UnresolvedColumns(file)
            /\ df' = NoFrame
            /\ pipeline_step' = 1
            /\ load_excel_file(file).rows = <<>>

\* C12: when a canonical column (category, construction_a, operation_b,
\* end_of_life_c) resolves from no header, load_excel_file fails naming
\* exactly the unresolved columns and yields no line item; while the error
\* stands the session holds no frame and pipeline_step is 1.
C12_MissingColumnsFail ==
    /\ [](error # <<>> => df = NoFrame /\ pipeline_step = 1)
    /\ [][FailedIngestIsAtomic]_vars

\* C12 witness: the sheet with a category and a construction column only
\* was uploaded: two columns are reported and nothing is held
C12_Witness ==
    /\ error = <<"operation_b", "end_of_life_c">>
    /\ ~df.held
    /\ pipeline_step = 1

\* the category cell is missing, or a string of nothing but white space
IsBlank(cell) ==
    \/ cell.t \in {"nan", "none"}
    \/ cell.t = "str" /\ \A i \in 1..Len(cell.s) : Char(cell.s, i) \in Whitespace

\* the category cells of the sheet's rows, in source order
SourceCategories(file) ==
    LET c == CHOOSE k \in 1..Len(file.columns) : column_mapping(file.columns, k) = "category"
    IN  [k \in 1..Len(file.rows) |-> file.rows[k][c]]

NotBlank(cell) == ~IsBlank(cell)

\* a successful ingest makes one item per non-blank source row, in source order
IngestKeepsNonBlankRows ==
    \A file \in Files :
        Ingest(file) /\ df'.held =>
            \A kept \in {SelectSeq(SourceCategories(file), NotBlank)} :
                /\ Len(df'.rows) = Len(kept)
                /\ \A k \in 1..Len(kept) : df'.rows[k].category = kept[k]

\* while a frame is held no step changes the number of items or a row_id
EditsKeepRowIds ==
    df.held /\ df'.held =>
        /\ Len(df'.rows) = Len(df.rows)
        /\ \A k \in Rows : df'.rows[k].row_id = df.rows[k].row_id

\* C13: ingest makes exactly one line item per source row whose category is
\* not blank after trimming, in source order, with row_id 0..n-1 (no gap, no
\* duplicate); no later edit changes the number of items or any row_id.
C13_RowIdsStable ==
    /\ [](\A k \in Rows : df.rows[k].row_id = k - 1)
    /\ [][IngestKeepsNonBlankRows /\ EditsKeepRowIds]_vars

\* C13 witness: the reloaded sheet, whose second and fourth source rows are
\* blank, after two edits: five items, the third source row has row_id 1
C13_Witness ==
    /\ df.held
    /\ edits = 2
    /\ Len(df.rows) = 5
    /\ df.rows[2].category = Str("Scenario C - RIV - Existing Waste")
    /\ df.rows[2].row_id = 1
    /\ df.rows[4].category = Num(2024)
    /\ df.rows[4].row_id = 3

\* what ingest sets once: everything but the mapping, the exclusion flag, the
\* weighting and the weighted total
IngestValues(row) ==
    [category |-> row.category,
     construction_a |-> row.construction_a,
     operation_b |-> row.operation_b,
     end_of_life_c |-> row.end_of_life_c,
     total_gwp_base |-> row.total_gwp_base,
     is_summary |-> row.is_summary,
     suggested_scenario |-> row.suggested_scenario,
     suggested_discipline |-> row.suggested_discipline,
     suggested_mmi_code |-> row.suggested_mmi_code,
     suggested_mmi_label |-> row.suggested_mmi_label,
     row_id |-> row.row_id]

\* the row_ids of RowIdChoices that no row of the frame carries
AbsentRowIds == {id \in RowIdChoices : \A k \in Rows : df.rows[k].row_id # id}

\* an apply_user_mapping update for an absent row_id returns the frame as it
\* was, and no update changes the frame that was passed
MappingLeavesTheRest ==
    \A updates \in UpdateChoices :
        /\ \A id \in AbsentRowIds : apply_user_mapping(df.rows, id, updates) = df.rows
        /\ \A id \in RowIdChoices : apply_user_mapping_frame(df.rows, id, updates) = df.rows

\* a step with a frame held before and after changes at most the one row it
\* targets, and of that row nothing that ingest set
EditsTouchOnlyEditableCells ==
    df.held /\ df'.held =>
        /\ Len(df'.rows) = Len(df.rows)
        /\ \A k \in Rows : IngestValues(df'.rows[k]) = IngestValues(df.rows[k])
        /\ Cardinality({k \in Rows : df'.rows[k] # df.rows[k]}) <= 1
        /\ \A id \in AbsentRowIds, updates \in UpdateChoices :
            ApplyUserMapping /\ df'.rows = apply_user_mapping(df.rows, id, updates)
                => df'.rows = df.rows

\* C14: edits (apply_user_mapping or the editor's edit loop) change only
\* mapped_scenario, mapped_discipline, mapped_mmi_code, excluded, weighting
\* and total_gwp of the row they target: what ingest set stays, other rows
\* are unchanged, an update for an absent row_id changes nothing, and
\* apply_user_mapping leaves the frame passed to it as it was.
C14_EditFrame == [](MappingLeavesTheRest) /\ [][EditsTouchOnlyEditableCells]_vars

\* C14 witness: the first row of the end-to-end sheet remapped and reweighted;
\* its suggestion and base total are those of ingest, the second row is as
\* it was loaded
C14_Witness ==
    /\ df.held
    /\ Len(df.rows) = 4
    /\ df.rows[1].category = Str("Scenario A - RIV - New")
    /\ df.rows[1].mapped_scenario = "C"
    /\ df.rows[1].suggested_scenario = "A"
    /\ df.rows[1].weighting = 50
    /\ df.rows[1].total_gwp_base = 1000
    /\ df.rows[2] = load_excel_file(FileEndToEnd).rows[2]

\* the active rows, and those of them with all three mapped fields set
ActiveRows == {k \in Rows : df.rows[k].excluded = FALSE}
FullyMappedRows ==
    {k \in ActiveRows : /\ df.rows[k].mapped_scenario # None
                        /\ df.rows[k].mapped_discipline # None
                        /\ df.rows[k].mapped_mmi_code # None}

\* C15: for the held frame get_mapping_statistics gives active_rows =
\* total_rows - excluded_rows, fully_mapped the number of active rows with all
\* three mapped fields set, partially_mapped the number of the other active
\* rows (the two add up to active_rows), and mapping_completeness =
\* fully_mapped / active_rows * 100, which is 0 when active_rows is 0.
C15_MappingStatistics ==
    df.held =>
        \A stats \in {get_mapping_statistics(df.rows)} :
            /\ stats.total_rows = Len(df.rows)
            /\ stats.excluded_rows = Cardinality(Rows \ ActiveRows)
            /\ stats.active_rows = stats.total_rows - stats.excluded_rows
            /\ stats.fully_mapped = Cardinality(FullyMappedRows)
            /\ stats.partially_mapped = Cardinality(ActiveRows \ FullyMappedRows)
            /\ stats.fully_mapped + stats.partially_mapped = stats.active_rows
            /\ stats.mapping_completeness.den # 0
            /\ IF stats.active_rows = 0
               THEN stats.mapping_completeness.num = 0
               ELSE /\ stats.mapping_completeness.num = stats.fully_mapped * 100
                    /\ stats.mapping_completeness.den = stats.active_rows

\* C15 witness: a frame of two rows, both excluded: no active row
C15_Witness ==
    /\ df.held
    /\ Len(df.rows) = 2
    /\ ActiveRows = {}
    /\ get_mapping_statistics(df.rows).active_rows = 0
    /\ get_mapping_statistics(df.rows).mapping_completeness = Quotient(0, 1)

\* C16: compare_scenarios returns the empty result whenever the base or the
\* compare scenario is not a key of the tree (a scenario whose rows were all
\* excluded or unmapped is not a key), and a result with a difference and
\* a ratio for each of the four metrics whenever both are keys.
C16_AbsentScenarioEmpty ==
    \A tree \in {aggregate_by_mapping(df.rows)} :
        \A b \in ScenarioKeys, c \in ScenarioKeys :
            \A r \in {compare_scenarios(tree, b, c)} :
                IF b \in DOMAIN tree /\ c \in DOMAIN tree
                THEN /\ ~r.empty
                     /\ DOMAIN r.difference =
                            {"construction_a", "operation_b", "end_of_life_c", "total_gwp"}
                     /\ DOMAIN r.ratio = DOMAIN r.difference
                ELSE r = [empty |-> TRUE]

\* C16 witness: the only row of scenario A of the end-to-end sheet was
\* excluded by an edit: A is no key any more and comparing A with C is empty
C16_Witness ==
    /\ df.held
    /\ Len(df.rows) = 4
    /\ df.rows[1].suggested_scenario = "A"
    /\ df.rows[1].mapped_scenario = "A"
    /\ df.rows[1].excluded
    /\ pipeline_step = 5
    /\ structure = aggregate_by_mapping(df.rows)
    /\ DOMAIN structure = {"C"}
    /\ compare_scenarios(structure, "A", "C") = NoComparison
    /\ comparison = NoComparison

\* the lower-cased text of a row's category holds one of the tokens
HoldsToken(row, tokens) ==
    \E tok \in tokens : Contains(lower(astype_str(row.category)), tok)

\* the frame is as ingest made it: held and not edited yet
FreshlyIngested == df.held /\ edits = 0

\* C22 as claimed: at ingest a row is excluded exactly when it is a summary row
\* or its category holds a token of the noise set, 'outdated' and 'copy' among
\* them.
C22_ExcludedAtIngestAsClaimed ==
    FreshlyIngested =>
        \A k \in Rows :
            df.rows[k].excluded <=>
                (df.rows[k].is_summary \/ HoldsToken(df.rows[k], noise_tokens \cup {"outdated", "copy"}))

\* C22 amended: at ingest a row is excluded exactly when it is a summary row or
\* its category holds, in any letter case, 'utdatert', 'copy' or 'kopi'; the
\* English 'outdated' is no token.
C22_ExcludedAtIngest ==
    FreshlyIngested =>
        \A k \in Rows :
            df.rows[k].excluded <=>
                (df.rows[k].is_summary \/ HoldsToken(df.rows[k], {"utdatert", "copy", "kopi"}))

\* C22 witness: of the reloaded sheet the 'copy' row and the summary row are
\* excluded at ingest and the others are not
C22_Witness ==
    /\ df.held /\ edits = 0 /\ Len(df.rows) = 5
    /\ df.rows[3].category = Str("Scenario C - ARK - 700 copy")
    /\ df.rows[3].excluded /\ ~df.rows[3].is_summary
    /\ df.rows[5].excluded /\ df.rows[5].is_summary
    /\ ~df.rows[1].excluded /\ ~df.rows[2].excluded /\ ~df.rows[4].excluded

\* the active rows whose suggested MMI code is not null and is not the mapped
\* one
OverriddenMmi ==
    {k \in Rows :
        /\ ~df.rows[k].excluded
        /\ df.rows[k].suggested_mmi_code \in DOMAIN MMI_MAPPING
        /\ df.rows[k].mapped_mmi_code # df.rows[k].suggested_mmi_code}

\* C23: right after ingest the three mapped fields of every item equal its
\* three suggested fields, null included, and check_unmapped_mmi_codes reports
\* nothing; at any time it reports exactly the active rows whose suggested MMI
\* code is not null and differs from the mapped one.
C23_MappedStartsAsSuggested ==
    \A report \in {check_unmapped_mmi_codes(df.rows)} :
        /\ FreshlyIngested =>
              /\ \A k \in Rows :
                    /\ df.rows[k].mapped_scenario = df.rows[k].suggested_scenario
                    /\ df.rows[k].mapped_discipline = df.rows[k].suggested_discipline
                    /\ df.rows[k].mapped_mmi_code = df.rows[k].suggested_mmi_code
              /\ report = <<>>
        /\ Len(report) = Cardinality(OverriddenMmi)
        /\ \A k \in OverriddenMmi :
              \E j \in 1..Len(report) :
                  /\ report[j].category = df.rows[k].category
                  /\ report[j].suggested_mmi_code = df.rows[k].suggested_mmi_code
                  /\ report[j].mapped_mmi_code = df.rows[k].mapped_mmi_code
                  /\ report[j].total_gwp = df.rows[k].total_gwp

\* C23 witness: in the sample sheet row 1's MMI code was set to null; it is the
\* only row reported, the excluded summary row 4 carrying no suggestion
C23_Witness ==
    /\ df.held /\ Len(df.rows) = 4
    /\ df.rows[1].suggested_mmi_code = "300" /\ df.rows[1].mapped_mmi_code = None
    /\ ~df.rows[1].excluded
    /\ df.rows[4].suggested_mmi_code = None /\ df.rows[4].excluded
    /\ Len(check_unmapped_mmi_codes(df.rows)) = 1
    /\ check_unmapped_mmi_codes(df.rows)[1].category = Str("Scenario A - RIV - MMI300")

\* the weighted total of the active, fully mapped items of a scenario and a
\* discipline, 0 when there is none
ItemsOf(scenario, discipline) ==
    {k \in Rows :
        /\ ~df.rows[k].excluded
        /\ df.rows[k].mapped_scenario = scenario
        /\ df.rows[k].mapped_discipline = discipline
        /\ df.rows[k].mapped_mmi_code # None}
ItemsTotal(scenario, discipline) ==
    Sum([k \in ItemsOf(scenario, discipline) |-> df.rows[k].total_gwp],
        ItemsOf(scenario, discipline))
HasItems(scenario) == \E discipline \in DISCIPLINES : ItemsOf(scenario, discipline) # {}

\* C24: get_all_disciplines_comparison lists, one row each, exactly the
\* disciplines that have items in the base or in the compare scenario; a side
\* without items of the discipline counts as 0; the difference is compare
\* minus base; the ratio is null when the base side is 0; the table is empty
\* when either scenario has no node in the tree.
C24_AllDisciplinesComparison ==
    ret.fn = "get_all_disciplines_comparison" =>
        \A b \in {arg.base_scenario}, c \in {arg.compare_scenario}, table \in {ret.val} :
            IF ~HasItems(b) \/ ~HasItems(c) THEN table = <<>>
            ELSE /\ {table[k].Disiplin : k \in 1..Len(table)}
                        = {d \in DISCIPLINES : ItemsOf(b, d) \cup ItemsOf(c, d) # {}}
                 /\ \A j, k \in 1..Len(table) : table[j].Disiplin = table[k].Disiplin => j = k
                 /\ \A k \in 1..Len(table) :
                        /\ table[k].base_total = ItemsTotal(b, table[k].Disiplin)
                        /\ table[k].compare_total = ItemsTotal(c, table[k].Disiplin)
                        /\ table[k].Differanse = table[k].compare_total - table[k].base_total
                        /\ table[k].base_total = 0 => table[k].Ratio.null

\* C24 witness: RIV has items in A only and ARK in C only; both are listed, ARK
\* with base 0 and no ratio, RIV with compare 0
C24_Witness ==
    /\ ret.fn = "get_all_disciplines_comparison"
    /\ arg = ScenarioArgs("A", "C")
    /\ Len(ret.val) = 2
    /\ ret.val[1].Disiplin = "ARK" /\ ret.val[1].base_total = 0
    /\ ret.val[1].compare_total = 35000 /\ ret.val[1].Ratio.null
    /\ ret.val[2] = [Disiplin |-> "RIV", base_total |-> 35000, compare_total |-> 0,
                     Differanse |-> 0 - 35000,
                     Ratio |-> [null |-> FALSE, num |-> 0, den |-> 35000]]

\* the weighted total of all items of a scenario
ScenarioItemsTotal(scenario) ==
    Sum([d \in DISCIPLINES |-> ItemsTotal(scenario, d)], DISCIPLINES)

\* the difference of a discipline between the two scenarios of the call
ItemsDiff(d) == ItemsTotal(arg.scenario_c, d) - ItemsTotal(arg.scenario_a, d)

\* C25: calculate_top_drivers returns at most top_n disciplines, each once, of
\* those that have items in either scenario, by non-increasing absolute
\* difference (compare minus base), none left out whose absolute difference
\* is larger; each comes with its difference as a percentage of the
\* difference of the scenario totals, which is 0 when that difference is 0.
C25_TopDrivers ==
    ret.fn = "calculate_top_drivers" /\ ~ret.val.raised =>
        \A top \in {ret.val.drivers} :
        \A union \in {{d \in DISCIPLINES :
                        ItemsOf(arg.scenario_c, d) \cup ItemsOf(arg.scenario_a, d) # {}}} :
        \A total_diff \in {ScenarioItemsTotal(arg.scenario_c)
                                - ScenarioItemsTotal(arg.scenario_a)} :
            /\ Len(top) <= arg.top_n
            /\ Len(top) = arg.top_n \/ Len(top) = Cardinality(union)
            /\ \A k \in 1..Len(top) : top[k].disc \in union
            /\ \A j, k \in 1..Len(top) : top[j].disc = top[k].disc => j = k
            /\ \A k \in 1..Len(top) : top[k].diff = ItemsDiff(top[k].disc)
            /\ \A k \in 1..(Len(top) - 1) : Abs(top[k].diff) >= Abs(top[k + 1].diff)
            /\ \A d \in union \ {top[k].disc : k \in 1..Len(top)} :
                    Abs(ItemsDiff(d)) <= Abs(top[Len(top)].diff)
            /\ \A k \in 1..Len(top) :
                    IF total_diff = 0 THEN top[k].pct_of_diff = Quotient(0, 1)
                    ELSE /\ top[k].pct_of_diff.num = 100 * top[k].diff
                         /\ top[k].pct_of_diff.den = total_diff

\* C25 witness: C holds 350 of ARK, A holds 100 of RIV: ARK drives 140 % of the
\* difference of 250 and RIV -40 %
C25_Witness ==
    /\ ret.fn = "calculate_top_drivers" /\ ~ret.val.raised
    /\ arg = [scenario_c |-> "C", scenario_a |-> "A", top_n |-> 3]
    /\ Len(ret.val.drivers) = 2
    /\ ret.val.drivers[1].disc = "ARK" /\ ret.val.drivers[1].diff = 35000
    /\ ret.val.drivers[1].pct_of_diff = Quotient(3500000, 25000)
    /\ ret.val.drivers[2].disc = "RIV" /\ ret.val.drivers[2].diff = 0 - 10000
    /\ ret.val.drivers[2].pct_of_diff = Quotient(0 - 1000000, 25000)

\* the sum of a column over the active, fully mapped items of a scenario
ScenarioSum(scenario, column) ==
    LET items == UNION {ItemsOf(scenario, d) : d \in DISCIPLINES}
    IN  Sum([k \in items |-> df.rows[k][column]], items)

\* C26 as claimed: when both A and C have a node in the tree, generate_insights
\* does not raise; when A's total_gwp is 0 it draws no verdict and no
\* recommendation, and it reports no finding for a phase whose total in A is 0.
C26_NullRatioIsDataAsClaimed ==
    ret.fn = "generate_insights" /\ HasItems("A") /\ HasItems("C") =>
        /\ ~ret.val.raised
        /\ ScenarioSum("A", "total_gwp") = 0 =>
              ret.val.verdict = None /\ ret.val.recommendation = None
        /\ \A key \in Phases : ScenarioSum("A", key) = 0 => key \notin ret.val.findings

\* the active, fully mapped items
MappedItems ==
    {k \in Rows :
        /\ ~df.rows[k].excluded
        /\ df.rows[k].mapped_scenario # None
        /\ df.rows[k].mapped_discipline # None
        /\ df.rows[k].mapped_mmi_code # None}

\* the node holds the unweighted phase sums, the weighted total (in
\* hundredths: base total * weighting) and the number of the items
NodeSumsItems(node, items) ==
    /\ node.construction_a = Sum([k \in items |-> df.rows[k].construction_a], items)
    /\ node.operation_b = Sum([k \in items |-> df.rows[k].operation_b], items)
    /\ node.end_of_life_c = Sum([k \in items |-> df.rows[k].end_of_life_c], items)
    /\ node.total_gwp =
          Sum([k \in items |->
                  (df.rows[k].construction_a + df.rows[k].operation_b
                      + df.rows[k].end_of_life_c) * df.rows[k].weighting], items)
    /\ node.count = Cardinality(items)
    /\ (\A k \in items : df.rows[k].weighting = Percent) =>
          node.total_gwp = Percent * (node.construction_a + node.operation_b + node.end_of_life_c)

\* C27: every node of the tree, at scenario, discipline and MMI level, holds
\* the unweighted sums of its items' phase amounts, the sum of their weighted
\* totals and their number, items of weighting 0 included; with every
\* weighting at 100 its total_gwp is the sum of its three phase totals.
C27_NodeTotals ==
    \A tree \in {aggregate_by_mapping(df.rows)} :
        \A s \in DOMAIN tree :
            /\ NodeSumsItems(tree[s].total, {k \in MappedItems : df.rows[k].mapped_scenario = s})
            /\ \A d \in DOMAIN tree[s].disciplines :
                  /\ NodeSumsItems(tree[s].disciplines[d].total,
                                   {k \in MappedItems : /\ df.rows[k].mapped_scenario = s
                                                        /\ df.rows[k].mapped_discipline = d})
                  /\ \A m \in DOMAIN tree[s].disciplines[d].mmi_categories :
                        NodeSumsItems(tree[s].disciplines[d].mmi_categories[m],
                                      {k \in MappedItems : /\ df.rows[k].mapped_scenario = s
                                                           /\ df.rows[k].mapped_discipline = d
                                                           /\ df.rows[k].mapped_mmi_code = m})

\* C27 witness: the reloaded sheet, whose only active item of scenario C has
\* its weighting clipped to 0; the node counts it and sums its phases, while
\* scenario A's single item of weighting 100 gives total_gwp = sum of phases
C27_Witness ==
    /\ df.held /\ Len(df.rows) = 5
    /\ df.rows[2].weighting = 0 /\ df.rows[2].mapped_scenario = "C"
    /\ \A tree \in {aggregate_by_mapping(df.rows)} :
          /\ DOMAIN tree = {"A", "C"}
          /\ tree["C"].disciplines["RIV"].mmi_categories["900"].count = 1
          /\ tree["C"].total.operation_b = 200 /\ tree["C"].total.end_of_life_c = 0 - 300
          /\ tree["C"].total.total_gwp = 0
          /\ tree["A"].total.count = 1 /\ tree["A"].total.total_gwp = 100000
          /\ tree["A"].total.construction_a = 1000

\* C28 as claimed: after ingest and any apply_user_mapping edits every
\* scenario, discipline and MMI key of the tree is of the fixed vocabularies
\* (validate_combination holds at every MMI node) and no MMI node is labelled
\* UKJENT.
C28_TreeKeysInVocabularyAsClaimed ==
    \A tree \in {aggregate_by_mapping(df.rows)} :
        \A s \in DOMAIN tree :
            /\ s \in SCENARIOS
            /\ \A d \in DOMAIN tree[s].disciplines :
                  /\ d \in DISCIPLINES
                  /\ \A m \in DOMAIN tree[s].disciplines[d].mmi_categories :
                        /\ validate_combination(s, d, m)
                        /\ tree[s].disciplines[d].mmi_categories[m].label # "UKJENT"

\* the row of a discipline in a comparison table
RowOf(table, discipline) ==
    table[CHOOSE k \in 1..Len(table) : table[k].Disiplin = discipline]

\* C29 as claimed: for a discipline with items in both scenarios, the ratio of
\* get_all_disciplines_comparison is the total_gwp ratio of
\* compare_disciplines_across_scenarios, both null or both the same number, a
\* negative base total included; it is null only when the base total is 0.
C29_ComparatorsAgreeAsClaimed ==
    ret.fn = "compare_disciplines_across_scenarios"
        /\ ItemsOf(arg.base_scenario, arg.discipline) # {}
        /\ ItemsOf(arg.compare_scenario, arg.discipline) # {}
    => \A row \in {RowOf(get_all_disciplines_comparison(aggregate_by_mapping(df.rows),
                                                        arg.base_scenario, arg.compare_scenario),
                          arg.discipline)} :
          /\ ~ret.val.empty
          /\ row.Ratio = ret.val.ratio["total_gwp"]
          /\ row.Ratio.null <=> ItemsTotal(arg.base_scenario, arg.discipline) = 0

\* a step that leaves a held frame held keeps its items: a run without an edit
\* leaves every row as it was, a run with an edit changes one row at most, and
\* no row's category changes
HeldFrameIsKept ==
    df.held /\ df'.held =>
        /\ Len(df'.rows) = Len(df.rows)
        /\ \A k \in Rows : df'.rows[k].category = df.rows[k].category
        /\ edits' = edits => df'.rows = df.rows
        /\ edits' = edits + 1 \/ edits' = edits
        /\ Cardinality({k \in Rows : df'.rows[k] # df.rows[k]}) <= edits' - edits

\* a frame comes to be held only from no frame, and goes only by Start Over,
\* which resets the step to 1
FrameComesAndGoes ==
    /\ ~df.held /\ df'.held => edits = 0 /\ pipeline_step' = 2
    /\ df.held /\ ~df'.held => pipeline_step' = 1 /\ edits' = 0

\* the step decreases only when Start Over drops the frame
StepDecreasesOnlyOnStartOver ==
    pipeline_step' < pipeline_step => df.held /\ ~df'.held

\* C30: the file is ingested only while no frame is held; every later run keeps
\* the held items with all edits, whatever file is uploaded, until Start Over
\* clears the session; between two Start Overs pipeline_step never decreases.
C30_IngestOnlyWhenEmpty ==
    [][HeldFrameIsKept /\ FrameComesAndGoes /\ StepDecreasesOnlyOnStartOver]_vars

\* C30 witness: the sample sheet is held at step 5 after two edits, its first
\* row's discipline changed from the detected RIV to ARK
C30_Witness ==
    /\ df.held /\ Len(df.rows) = 4 /\ edits = 2 /\ pipeline_step = 5
    /\ df.rows[1].category = Str("Scenario A - RIV - MMI300")
    /\ df.rows[1].suggested_discipline = "RIV"
    /\ df.rows[1].mapped_discipline = "ARK"
    /\ df.rows[1].weighting = 50

(***************************************************************************)
(* Claims about the detectors                                              *)
(***************************************************************************)
Called(fn) == ret.fn = fn /\ IsStr(arg)

\* the category names RAMBOELL or RAMBELL (in any letter case)
NamesRamboll(ls) == Contains(ls, "ramboell") \/ Contains(ls, "rambell")

\* C7 as claimed: is_summary_row is true for every category that contains the
\* name token RAMBOELL or RAMBELL, that starts with S, digits and a hyphen, or
\* that contains Total, Sum or Totalt in any letter case; it is false for a
\* category with none of these marks and no other RAMB..LL-like name, and for
\* empty or non-string input.
C7_SummaryRowAsClaimed ==
    ret.fn = "is_summary_row" =>
        IF ~IsStr(arg) \/ arg.s = "" THEN ret.val = FALSE
        ELSE LET ls == lower(arg.s)
                 marked == \/ NamesRamboll(ls)
                           \/ SummaryPatternSNumber(ls)
                           \/ Contains(ls, "total")
                           \/ Contains(ls, "sum")
             IN  /\ marked => ret.val = TRUE
                 /\ ~marked /\ ~SummaryPatternRamboll(ls) => ret.val = FALSE

\* C8 as claimed: any category that contains RIBp is detected as RIBp, and one
\* that contains the token RIB but not RIBp as RIB.
C8_RibpAsClaimed ==
    Called("detect_discipline") =>
        /\ Contains(arg.s, "RIBp") => ret.val = "RIBp"
        /\ BoundedToken(lower(arg.s), "rib") /\ ~Contains(arg.s, "RIBp") => ret.val = "RIB"

\* C8 amended: a category in which RIBp stands (in any letter case) between
\* separators or string edges is detected as RIBp, never as RIB, whatever else
\* it holds; one with a so-bounded RIB and no so-bounded RIBp is detected as RIB.
C8_RibpPrecedence ==
    Called("detect_discipline") =>
        LET ls == lower(arg.s)
        IN  /\ BoundedToken(ls, "ribp") => ret.val = "RIBp"
            /\ BoundedToken(ls, "rib") /\ ~BoundedToken(ls, "ribp") => ret.val = "RIB"

\* C8 witness: both tokens stand bounded in the category and RIBp is returned
C8_Witness ==
    /\ Called("detect_discipline")
    /\ arg.s = "RIB RIBp"
    /\ ret.val = "RIBp"

\* the category holds a code after an MMI marker, or a bare bounded code
HasMarkedCode(s) == \E i \in 1..Len(s) : MmiPattern1At(lower(s), i) # 0
HasBareCode(s) == \E i \in 1..Len(s) : MmiPattern2At(s, i)

\* C9 as claimed: any category that contains 'Existing Waste' in any letter
\* case is detected as MMI 900.
C9_ExistingWasteAsClaimed ==
    Called("detect_mmi") /\ Contains(lower(arg.s), "existing waste") => ret.val = "900"

\* C9 amended: a category that contains 'Existing Waste' in any letter case and
\* holds no code after an MMI marker and no bare bounded code is detected as
\* MMI 900, never 700.
C9_ExistingWastePrecedence ==
    Called("detect_mmi") /\ Contains(lower(arg.s), "existing waste")
        /\ ~HasMarkedCode(arg.s) /\ ~HasBareCode(arg.s)
    => ret.val = "900"

\* C9 witness: 'Existing Waste' after other text and a separator yields 900
C9_Witness ==
    /\ Called("detect_mmi")
    /\ arg.s = "x_Existing Waste"
    /\ ret.val = "900"

\* the category has the form '<X> - Scenario <Y> ...'
HasLeadingLetterForm(s) ==
    /\ Char(s, 1) \in ScenarioLetters
    /\ Slice(s, 2, 12) = " - Scenario "
    /\ Char(s, 14) \in ScenarioLetters

\* 'Scenario' directly followed by a letter and then a separator or the end
HasAttachedMarker(s) == \E i \in 1..Len(s) : ScenarioPattern1At(lower(s), i)

\* the letters that follow a 'Scenario' marker somewhere in the category
MarkerLetters(s) ==
    LET ls == lower(s)
    IN  {upper(Char(s, i + 8)) : i \in {j \in 1..Len(s) : ScenarioPattern1At(ls, j)}}
        \cup {upper(Char(s, SkipWhile(ls, i + 8, Whitespace))) :
                i \in {j \in 1..Len(s) : ScenarioPattern2At(ls, j)}}

\* C10 as claimed: every category of the form '<X> - Scenario <Y> ...' is
\* detected as scenario Y.
C10_ScenarioWordAsClaimed ==
    Called("detect_scenario") /\ HasLeadingLetterForm(arg.s) => ret.val = Char(arg.s, 14)

\* C10 amended: a category of the form '<X> - Scenario <Y> ...' in which no
\* 'Scenario' is directly followed by a letter and a separator or the end is
\* detected as Y; and whenever a category holds a 'Scenario' marker the result
\* is a letter that follows a marker, so the bare leading letter decides only
\* when no marker rule matches.
C10_ScenarioWordPrecedence ==
    Called("detect_scenario") =>
        /\ HasLeadingLetterForm(arg.s) /\ ~HasAttachedMarker(arg.s)
            => ret.val = Char(arg.s, 14)
        /\ MarkerLetters(arg.s) # {} => ret.val \in MarkerLetters(arg.s)

\* C10 witness: the leading letter differs from the letter after 'Scenario'
C10_Witness ==
    /\ Called("detect_scenario")
    /\ arg.s = "A - Scenario C - RIE"
    /\ ret.val = "C"

\* C11: for every input (a string, the empty string, a number, NaN, None)
\* detect_all returns; its scenario, discipline and mmi_code are what
\* detect_scenario, detect_discipline and detect_mmi give on the same input,
\* all None for an empty or non-string input; mmi_label is NY/EKS/GJEN/RIVES
\* for 300/700/800/900 and UKJENT exactly when mmi_code is None.
C11_DetectAllComposes ==
    ret.fn = "detect_all" =>
        /\ ret.val.scenario = detect_scenario(arg)
        /\ ret.val.discipline = detect_discipline(arg)
        /\ ret.val.mmi_code = detect_mmi(arg)
        /\ ret.val.original_category = arg
        /\ ~IsStr(arg) \/ arg.s = "" =>
            /\ ret.val.scenario = None
            /\ ret.val.discipline = None
            /\ ret.val.mmi_code = None
        /\ ret.val.mmi_code \in {"300", "700", "800", "900", None}
        /\ ret.val.mmi_code = "300" => ret.val.mmi_label = "NY"
        /\ ret.val.mmi_code = "700" => ret.val.mmi_label = "EKS"
        /\ ret.val.mmi_code = "800" => ret.val.mmi_label = "GJEN"
        /\ ret.val.mmi_code = "900" => ret.val.mmi_label = "RIVES"
        /\ ret.val.mmi_label = "UKJENT" <=> ret.val.mmi_code = None

\* C11 witness: a discipline found where no scenario and no MMI code is
C11_Witness ==
    /\ ret.fn = "detect_all"
    /\ arg = Str("x - RIV")
    /\ ret.val.scenario = None
    /\ ret.val.discipline = "RIV"
    /\ ret.val.mmi_code = None
    /\ ret.val.mmi_label = "UKJENT"

\* the letters the claim expects: those that follow the word 'Scenario'
\* directly or through exactly one underscore, space or hyphen
ClaimedLetters(s) ==
    {L \in ScenarioLetters :
        \E i \in 1..Len(s) :
            /\ Slice(s, i, 8) = "Scenario"
            /\ \/ Char(s, i + 8) = L
               \/ Char(s, i + 8) \in {"_", " ", "-"} /\ Char(s, i + 9) = L}

\* C17 as claimed: a category in which 'Scenario' is followed by a letter L of
\* A..D directly or through one underscore, space or hyphen is detected as L.
C17_MarkerFormsAsClaimed ==
    Called("detect_scenario") =>
        \A L \in ScenarioLetters : ClaimedLetters(arg.s) = {L} => ret.val = L

\* 'Scenario' (in any case) at position i, a letter of A..D right after it,
\* and after the letter an underscore, white space, a hyphen or the end
AttachedLetterAt(s, i) ==
    /\ lower(Slice(s, i, 8)) = "scenario"
    /\ lower(Char(s, i + 8)) \in {"a", "b", "c", "d"}
    /\ i + 8 = Len(s) \/ Char(s, i + 9) \in {"_", "-"} \cup Whitespace

\* 'Scenario' (in any case) at position i, white space, then a letter of A..D
SpacedLetterAt(s, i) ==
    /\ lower(Slice(s, i, 8)) = "scenario"
    /\ Char(s, i + 8) \in Whitespace
    /\ lower(Char(s, SkipWhile(s, i + 8, Whitespace))) \in {"a", "b", "c", "d"}

\* the least element of a non-empty set of positions
First(S) == CHOOSE i \in S : \A j \in S : i <= j

\* C17 amended: the letter attached to the leftmost 'Scenario' that is directly
\* followed by a letter of A..D and then by a separator or the end is
\* returned (upper case); when there is no such marker, the letter that follows
\* the leftmost 'Scenario' through white space is; 'Scenario_A' and
\* 'Scenario-A' are no markers: with no marker of either kind the result is
\* None or the bare leading letter.
C17_MarkerForms ==
    Called("detect_scenario") =>
        \A attached \in {{i \in 1..Len(arg.s) : AttachedLetterAt(arg.s, i)}} :
        \A spaced \in {{i \in 1..Len(arg.s) : SpacedLetterAt(arg.s, i)}} :
            /\ attached # {} => ret.val = upper(Char(arg.s, First(attached) + 8))
            /\ attached = {} /\ spaced # {} =>
                ret.val = upper(Char(arg.s, SkipWhile(arg.s, First(spaced) + 8, Whitespace)))
            /\ attached = {} /\ spaced = {} =>
                \/ ret.val = None
                \/ ret.val = Char(arg.s, 1) /\ Char(arg.s, 2) \in {"_", "-"} \cup Whitespace

\* C17 witness: the letter hangs on the word and an underscore follows it
C17_Witness ==
    /\ Called("detect_scenario")
    /\ arg.s = "ScenarioC_"
    /\ ret.val = "C"

\* C18 as claimed: detect_scenario is case-insensitive in every rule: the
\* category in upper case and in lower case gives the result the category
\* itself gives, and the letter returned is upper case.
C18_CaseInsensitiveAsClaimed ==
    Called("detect_scenario") =>
        /\ ret.val \in {"A", "B", "C", "D", None}
        /\ detect_scenario(Str(upper(arg.s))) = ret.val
        /\ detect_scenario(Str(lower(arg.s))) = ret.val

\* the codes that stand after an 'MMI' marker, directly or through one
\* character of seps
MarkedCodes(s, seps) ==
    {code \in MmiDigits :
        \E i \in 1..Len(s) :
            /\ lower(Slice(s, i, 3)) = "mmi"
            /\ \/ Slice(s, i + 3, 3) = code
               \/ Char(s, i + 3) \in seps /\ Slice(s, i + 4, 3) = code}

\* the codes that stand between separators or string edges
BareCodes(s) ==
    {code \in MmiDigits :
        \E i \in 1..Len(s) :
            /\ Slice(s, i, 3) = code
            /\ i = 1 \/ Char(s, i - 1) \in Separator
            /\ i + 3 = Len(s) + 1 \/ Char(s, i + 3) \in Separator}

\* the statuses whose keywords the lower-cased category holds, 'existing waste'
\* counted when phrase holds and every other keyword when token-bounded
KeywordStatuses(ls, phrase) ==
    {code \in MmiDigits :
        \/ code = "900" /\ (phrase \/ BoundedAny(ls, {"rives", "riving", "demolish", "demo"}))
        \/ code = "800" /\ BoundedAny(ls, {"reused", "gjenbruk", "gjen"})
        \/ code = "700" /\ BoundedAny(ls, {"existing", "eksisterende", "beholdes", "eks", "kept"})
        \/ code = "300" /\ BoundedAny(ls, {"new", "nybygg", "ny"})}

PhraseBounded(ls) == BoundedToken(ls, "existing waste")
PhraseAnywhere(ls) == Contains(ls, "existing waste")

\* marked code, else bare code, else keyword, else None
MmiPriority(val, marked, bare, keywords) ==
    /\ marked # {} => val \in marked
    /\ marked = {} /\ bare # {} => val \in bare
    /\ marked = {} /\ bare = {} /\ keywords # {} => val \in keywords
    /\ marked = {} /\ bare = {} /\ keywords = {} => val = None

\* C19 as claimed: detect_mmi resolves by strict priority: a code after an
\* 'MMI' marker, with an optional separator (space, underscore or hyphen)
\* between them, wins over every bare code and keyword; else a bare code
\* bounded by separators or string edges wins over every keyword; else a
\* token-bounded keyword decides; None when nothing matches.
C19_MmiPriorityAsClaimed ==
    Called("detect_mmi") =>
        MmiPriority(ret.val, MarkedCodes(arg.s, Separator), BareCodes(arg.s),
                    KeywordStatuses(lower(arg.s), PhraseBounded(lower(arg.s))))

\* C19 amended: the same priority, where the marker reaches its code directly
\* or through one white-space character or underscore, never a hyphen, and
\* where 'existing waste' counts as a keyword anywhere in the string.
C19_MmiPriority ==
    Called("detect_mmi") =>
        MmiPriority(ret.val, MarkedCodes(arg.s, Whitespace \cup {"_"}), BareCodes(arg.s),
                    KeywordStatuses(lower(arg.s), PhraseAnywhere(lower(arg.s))))

\* C19 witness: a marked code after an earlier bare code and a keyword wins
C19_Witness ==
    /\ Called("detect_mmi")
    /\ arg.s = "Reused 300 MMI 700"
    /\ ret.val = "700"

\* the status the fixed order of checks puts first: 900, 800, 700, 300
FirstStatus(statuses) ==
    IF "900" \in statuses THEN "900"
    ELSE IF "800" \in statuses THEN "800"
    ELSE IF "700" \in statuses THEN "700"
    ELSE "300"

\* the category holds no MMI code, marked or bare
NoMmiCode(s) == MarkedCodes(s, Separator) = {} /\ BareCodes(s) = {}

\* C20 as claimed: a category without an MMI code that holds token-bounded
\* keywords of more than one status gets the status that is first in the order
\* 'existing waste' 900, demolition 900, reused 800, existing 700, new 300,
\* wherever the keywords stand.
C20_KeywordOrderAsClaimed ==
    Called("detect_mmi") /\ NoMmiCode(arg.s) =>
        \A statuses \in {KeywordStatuses(lower(arg.s), PhraseBounded(lower(arg.s)))} :
            Cardinality(statuses) > 1 => ret.val = FirstStatus(statuses)

\* C20 amended: the same, where 'existing waste' counts wherever the category
\* holds it, token-bounded or not, and every other keyword only token-bounded.
C20_KeywordOrder ==
    Called("detect_mmi") /\ NoMmiCode(arg.s) =>
        \A statuses \in {KeywordStatuses(lower(arg.s), PhraseAnywhere(lower(arg.s)))} :
            Cardinality(statuses) > 1 => ret.val = FirstStatus(statuses)

\* C20 witness: 'New' together with 'Reused' yields 800 in either order
C20_Witness ==
    /\ Called("detect_mmi")
    /\ arg.s = "New Reused"
    /\ ret.val = "800"
    /\ detect_mmi(Str("Reused New")) = "800"

\* token k of the fixed list stands in s, in any letter case, between string
\* edges or separators
StandsBounded(s, k) ==
    \E i \in 1..Len(s) :
        /\ lower(Slice(s, i, Len(disciplines[k]))) = lower(disciplines[k])
        /\ i = 1 \/ Char(s, i - 1) \in Separator
        /\ i + Len(disciplines[k]) = Len(s) + 1 \/ Char(s, i + Len(disciplines[k])) \in Separator

\* C21: detect_discipline returns, in canonical case, the first token of the
\* list RIBp, RIB, RIV, ARK, RIE that stands bounded in the category, whatever
\* the positions of the tokens, and None when no token stands bounded; a token
\* that only stands inside a longer word is never returned.
C21_DisciplineListOrder ==
    Called("detect_discipline") =>
        /\ disciplines = <<"RIBp", "RIB", "RIV", "ARK", "RIE">>
        /\ \A k \in 1..Len(disciplines) :
              StandsBounded(arg.s, k) /\ (\A j \in 1..(k - 1) : ~StandsBounded(arg.s, j))
              => ret.val = disciplines[k]
        /\ (\A k \in 1..Len(disciplines) : ~StandsBounded(arg.s, k)) => ret.val = None

\* C21 witness: ARK stands first in the string, ribp first in the list, and an
\* embedded RIV alone is not detected
C21_Witness ==
    /\ Called("detect_discipline")
    /\ arg.s = "ARK-ribp"
    /\ ret.val = "RIBp"
    /\ detect_discipline(Str("xRIV")) = None

=============================================================================
